---------------------------- MODULE Spec2Model ----------------------------
(***************************************************************************)
(* State-machine model of kfactory's cell registry (KLib), cells (KCell),  *)
(* ports (Ports), instances (Instance.connect), the parametric cell        *)
(* decorator (autocell / cell) and the bundle placer pipeline              *)
(* (route_bundle, place_single_wire).                                      *)
(*                                                                         *)
(* Cells are identified by their backend cell index, counted from 1 here.  *)
(* Names are records [base, args, dup]: base is the literal stem, args the *)
(* values appended to it ("Unnamed_<index>", "<func>_A<a>") and dup   *)
(* the "$k" suffixes the backend appends when it duplicates a cell.        *)
(***************************************************************************)
EXTENDS Integers, Sequences, FiniteSets, TLC

(* ------------------------------ bounds -------------------------------- *)

\* backend cells that may exist at once
MaxCells == 3
\* largest argument value handed to the decorated function
MaxVal == 3
\* capacity of the decorator's cache in the model (maxsize)
MaxSize == 1
\* ports in the library
MaxPorts == 2
\* instances in the library (backend)
MaxInsts == 3
\* largest |coordinate| of a transformation kept in the state
MaxCoord == 2

(* ------------------------------ names --------------------------------- *)

UserNames == {"a"}

Name(base) == [base |-> base, args |-> << >>, dup |-> << >>]

\* f"Unnamed_{self.cell_index()}"
UnnamedName(idx) == [base |-> "Unnamed_", args |-> <<idx>>, dup |-> << >>]

EmptyMap == [x \in {} |-> 0]

VARIABLES
    kname,      \* backend: kname[i] is the name of the kdb cell with index i
    kcells,     \* KLib.kcells: name -> index of the KCell registered under it
    wrapped,    \* indexes of the kdb cells that have a KCell wrapper
    locked,     \* KCell._locked
    ports,      \* KCell.ports._ports: per cell the list of ports
    kinsts,     \* backend: per cell the list of instances [cell, trans]
    insts,      \* KCell.insts: per cell the list of wrappers (index into kinsts)
    shapes,     \* backend: per cell the list of shapes [layer, pts, width]
    settings,   \* KCell.settings
    deco,       \* options the decorator was applied with: [set_name, set_settings, maxsize]
    cache,      \* KCellCache of the decorated function: list of [key, val]
    owner,      \* history: per cell the key it was first returned for, << >> if never
    liveRet,    \* history: key -> cell returned since the entry was last evicted, 0 if none
    used,       \* history: the keys the cache holds, the least recently used first
    cross_sections, \* CrossSectionModel.cross_sections: name -> cross section
    lastOp      \* the last operation: what was called and how it ended

vars == <<kname, kcells, wrapped, locked, ports, kinsts, insts, shapes, settings,
          deco, cache, owner, liveRet, used, cross_sections, lastOp>>

Cells == 1..Len(kname)

\* the number of entries of all the lists of ll
RECURSIVE Total(_)
Total(ll) == IF ll = << >> THEN 0 ELSE Len(Head(ll)) + Total(Tail(ll))

(* ------------------- the registry and its cells ----------------------- *)

\* The cell-side state as one record, so that the steps of an operation can
\* be composed in the order the code runs them.  err is the exception that
\* ended the operation ("" if none); new is the cell the step produced.
St == [kname |-> kname, kcells |-> kcells, wrapped |-> wrapped,
       locked |-> locked, ports |-> ports, kinsts |-> kinsts,
       insts |-> insts, shapes |-> shapes, settings |-> settings,
       err |-> "", new |-> 0]

Commit(s) ==
    /\ kname' = s.kname
    /\ kcells' = s.kcells
    /\ wrapped' = s.wrapped
    /\ locked' = s.locked
    /\ ports' = s.ports
    /\ kinsts' = s.kinsts
    /\ insts' = s.insts
    /\ shapes' = s.shapes
    /\ settings' = s.settings

Fail(s, e) == [s EXCEPT !.err = e]

\* dict assignment d[k] = v
Put(d, k, v) == [x \in (DOMAIN d) \cup {k} |-> IF x = k THEN v ELSE d[x]]

\* del d[k]
Del(d, k) == [x \in (DOMAIN d) \ {k} |-> d[x]]

\* kdb.Layout.cell(name) is not None
KdbHasCell(s, name) == \E i \in 1..Len(s.kname) : s.kname[i] = name

DupName(name, k) == [name EXCEPT !.dup = Append(@, k)]

\* The backend never gives a new cell a name that is in use: it appends
\* "$k" for the first free k.
UniqueName(s, name) ==
    IF ~KdbHasCell(s, name) THEN name
    ELSE DupName(name, CHOOSE k \in 1..(Len(s.kname) + 1) :
                    /\ ~KdbHasCell(s, DupName(name, k))
                    /\ \A j \in 1..(k - 1) : KdbHasCell(s, DupName(name, j)))

\* kdb.Layout.create_cell / kdb.Cell.dup: one more backend cell
KdbAddCell(s, name, kin, shp) ==
    [s EXCEPT !.kname = Append(@, UniqueName(s, name)),
              !.kinsts = Append(@, kin),
              !.shapes = Append(@, shp),
              !.locked = Append(@, FALSE),
              !.ports = Append(@, << >>),
              !.insts = Append(@, << >>),
              !.settings = Append(@, EmptyMap),
              !.new = Len(s.kname) + 1]

\* mutant: every cell is created as with allow_duplicate
KLib_create_cell_dup(s, name, allow_duplicate) ==
    LET enter(t) == [t EXCEPT !.kcells = Put(@, name, t.new)]
    IN  enter(KdbAddCell(s, name, << >>, << >>))

\* KLib.create_cell(kcell, name, allow_duplicate)
KLib_create_cell(s, name, allow_duplicate) ==
    LET enter(t) == [t EXCEPT !.kcells = Put(@, name, t.new)]
    IN  IF allow_duplicate \/ ~KdbHasCell(s, name)
        THEN enter(KdbAddCell(s, name, << >>, << >>))
        ELSE Fail(s, "ValueError")

\* KLib.register_cell(kcell)
KLib_register_cell(s, c) ==
    IF s.kname[c] \in DOMAIN s.kcells /\ s.kcells[s.kname[c]] # c
    THEN Fail(s, "KeyError")
    ELSE [s EXCEPT !.kcells = Put(@, s.kname[c], c)]

\* KLib.update_cell_name(name, new_name)
KLib_update_cell_name(s, name, new_name) ==
    IF new_name = name THEN s
    ELSE IF name \notin DOMAIN s.kcells THEN Fail(s, "KeyError")
    ELSE [s EXCEPT !.kcells = Del(Put(@, new_name, s.kcells[name]), name)]

\* KCell.name setter: the backend cell is renamed first, then the table
KCell_set_name(s, c, new_name) ==
    KLib_update_cell_name([s EXCEPT !.kname[c] = new_name], s.kname[c], new_name)

\* KCell.__init__(name) without kdb_cell; name "" stands for None
KCell_init(s, name) ==
    LET rename(t) == IF t.err # "" \/ name # "" THEN t
                     ELSE KCell_set_name(t, t.new, UnnamedName(t.new))
        wrap(u) == IF u.err # "" THEN u ELSE [u EXCEPT !.wrapped = @ \cup {u.new}]
    IN  wrap(rename(KLib_create_cell(s, IF name = "" THEN Name("Unnamed_") ELSE Name(name),
                                     FALSE)))

(* ------------------------- transformations ---------------------------- *)

\* kdb.Trans / kdb.ICplxTrans / kdb.DCplxTrans: p |-> mag * R(rot) * M(mirror) p + (x, y),
\* mirror (y |-> -y) first, then the rotation by rot * 90 degrees.  mag = 1
\* is a simple transformation.  Displacements are counted in dbu; a µm
\* displacement d is kept as d / dbu, which is what to_dtype(dbu) scales by.
Trans(rot, mirror, x, y) == [mag |-> 1, mirror |-> mirror, rot |-> rot, x |-> x, y |-> y]

\* kdb.Trans.R0, kdb.Trans.R180, kdb.Trans.M90
R0 == Trans(0, FALSE, 0, 0)
R180 == Trans(2, FALSE, 0, 0)
M90 == Trans(2, TRUE, 0, 0)

\* the rotation / mirror part of t applied to the vector (x, y)
LinX(t, x, y) ==
    LET my == IF t.mirror THEN -y ELSE y
    IN  CASE t.rot = 0 -> x
          [] t.rot = 1 -> -my
          [] t.rot = 2 -> -x
          [] t.rot = 3 -> my

LinY(t, x, y) ==
    LET my == IF t.mirror THEN -y ELSE y
    IN  CASE t.rot = 0 -> my
          [] t.rot = 1 -> x
          [] t.rot = 2 -> -my
          [] t.rot = 3 -> -x

\* a * b: b is applied first
Mul(a, b) ==
    [mag |-> a.mag * b.mag,
     rot |-> (a.rot + (IF a.mirror THEN 4 - b.rot ELSE b.rot)) % 4,
     mirror |-> (a.mirror # b.mirror),
     x |-> a.x + a.mag * LinX(a, b.x, b.y),
     y |-> a.y + a.mag * LinY(a, b.x, b.y)]

\* kdb.Trans.inverted() of a simple transformation
Inverted(t) ==
    LET l == [mag |-> 1, rot |-> IF t.mirror THEN t.rot ELSE (4 - t.rot) % 4,
              mirror |-> t.mirror, x |-> 0, y |-> 0]
    IN  [l EXCEPT !.x = -LinX(l, t.x, t.y), !.y = -LinY(l, t.x, t.y)]

\* kdb.Instance.is_complex()
IsComplex(t) == t.mag # 1

\* kdb.Instance.trans: the simple part of the instance's transformation
SimplePart(t) == [t EXCEPT !.mag = 1]

InRange(t) == t.x \in -MaxCoord..MaxCoord /\ t.y \in -MaxCoord..MaxCoord

(* ------------------------------ ports --------------------------------- *)

\* 1 / dbu: the layout's database unit is 1 / DbuInv µm
DbuInv == 2

\* Port(name, trans, width, layer, port_type); int_based and complex tell the
\* four port classes apart.  A µm width w is kept as w / dbu.
Port(name, trans, width, layer, port_type) ==
    [complex |-> FALSE, int_based |-> TRUE, layer |-> layer, name |-> name,
     port_type |-> port_type, trans |-> trans, width |-> width]

\* is_simple_port(port)
is_simple_port(p) == p.int_based /\ ~p.complex

\* Port.copy(trans)
Port_copy(p, trans) == [p EXCEPT !.trans = Mul(trans, p.trans)]

\* PortLike.copy_cplx(trans, dbu): a DCplxPort, width and trans in µm
Port_copy_cplx(p, trans) ==
    [p EXCEPT !.trans = Mul(trans, p.trans), !.int_based = FALSE, !.complex = TRUE]

\* p.width == op.width as Python compares an int (dbu) with a float (µm):
\* the µm width w * dbu equals the integer n iff w = n / dbu
WidthEq(p, op) ==
    IF p.int_based = op.int_based THEN p.width = op.width
    ELSE IF p.int_based THEN p.width * DbuInv = op.width
    ELSE p.width = op.width * DbuInv

\* Ports.get_all(): name -> port, a later port of the same name wins
Ports_names(ps) == {ps[i].name : i \in 1..Len(ps)}

\* Ports.__getitem__(key): the first port of that name, 0 if there is none
Ports_index(ps, key) ==
    IF key \in Ports_names(ps)
    THEN CHOOSE i \in 1..Len(ps) : ps[i].name = key /\ \A j \in 1..(i - 1) : ps[j].name # key
    ELSE 0

\* Ports.add_port(port, name): name "" stands for None
Ports_add_port(s, c, port, name) ==
    LET p == IF name # "" THEN [Port_copy(port, R0) EXCEPT !.name = name]
             ELSE Port_copy(port, R0)
    IN  IF p.name \in Ports_names(s.ports[c]) THEN Fail(s, "ValueError")
        ELSE [s EXCEPT !.ports[c] = Append(@, p)]

\* Ports.create_port(name, trans, width, layer, port_type); new is the place
\* in the list of the port it returns
Ports_create_port(s, c, port) ==
    [s EXCEPT !.ports[c] = Append(@, port), !.new = Len(s.ports[c]) + 1]

\* Ports.copy()
Ports_copy(ps) == [i \in 1..Len(ps) |-> Port_copy(ps[i], R0)]

(* ------------------------- cells and instances ------------------------ *)

\* KCell.create_port(**kwargs): what Ports.create_port returns is dropped,
\* the call returns None
KCell_create_port(s, c, port) == [Ports_create_port(s, c, port) EXCEPT !.new = 0]

\* KCell.add_port(port, name) for a Port
KCell_add_port(s, c, port, name) == Ports_add_port(s, c, port, name)

\* KCell.create_inst(cell, trans): one more backend instance and its wrapper
KCell_create_inst(s, c, child, trans) ==
    [s EXCEPT !.kinsts[c] = Append(@, [cell |-> child, trans |-> trans]),
              !.insts[c] = Append(@, Len(s.kinsts[c]) + 1)]

\* the loop of KCell.copy over self.insts[k..], creating each in the copy n
RECURSIVE CopyInsts(_, _, _, _)
CopyInsts(s, c, n, k) ==
    IF k > Len(s.insts[c]) THEN s
    ELSE LET inst == s.kinsts[c][s.insts[c][k]]
         IN  CopyInsts(KCell_create_inst(s, n, inst.cell, SimplePart(inst.trans)), c, n, k + 1)

\* KCell.__init__(kdb_cell = the cell n the backend just made)
KCell_init_kdb(s, n) ==
    LET rename(t) == IF t.err # "" THEN t ELSE KCell_set_name(t, n, t.kname[n])
        wrap(u) == IF u.err # "" THEN u
                   ELSE [u EXCEPT !.wrapped = @ \cup {n}, !.ports[n] = << >>,
                                  !.insts[n] = << >>, !.settings[n] = EmptyMap,
                                  !.locked[n] = FALSE]
    IN  wrap(rename(KLib_register_cell(s, n)))

\* mutant: copy() unlocks the original as well
KCell_copy_unlock(s, c) ==
    LET n == Len(s.kname) + 1
        unlock(u) == [u EXCEPT !.locked[n] = FALSE, !.locked[c] = FALSE, !.new = n]
        fill(t) == IF t.err # "" THEN t
                   ELSE unlock(CopyInsts([t EXCEPT !.ports[n] = Ports_copy(s.ports[c])],
                                         c, n, 1))
    IN  fill(KCell_init_kdb(KdbAddCell(s, s.kname[c], s.kinsts[c], s.shapes[c]), n))

\* KCell.copy(): the backend duplicate takes the shapes and instances of the
\* original and a name of its own; the wrapper copies the ports and creates
\* the instances of self.insts in the duplicate.
KCell_copy(s, c) ==
    LET n == Len(s.kname) + 1
        unlock(u) == [u EXCEPT !.locked[n] = FALSE, !.new = n]
        fill(t) == IF t.err # "" THEN t
                   ELSE unlock(CopyInsts([t EXCEPT !.ports[n] = Ports_copy(s.ports[c])],
                                         c, n, 1))
    IN  fill(KCell_init_kdb(KdbAddCell(s, s.kname[c], s.kinsts[c], s.shapes[c]), n))

\* t applied to the point pt = <<x, y>>
Apply(t, pt) ==
    <<t.x + t.mag * LinX(t, pt[1], pt[2]), t.y + t.mag * LinY(t, pt[1], pt[2])>>

\* a shape as an instance with transformation t shows it
TransShape(t, sh) ==
    [sh EXCEPT !.pts = [i \in 1..Len(@) |-> Apply(t, @[i])], !.width = t.mag * @]

\* the shapes of cell c and of the cells below it, as c shows them; d bounds
\* the depth of the hierarchy
RECURSIVE ShapesRec(_, _, _)
RECURSIVE InstShapes(_, _, _, _)
ShapesRec(s, c, d) == s.shapes[c] \o InstShapes(s, c, 1, d)
InstShapes(s, c, k, d) ==
    IF d = 0 \/ k > Len(s.kinsts[c]) THEN << >>
    ELSE LET inst == s.kinsts[c][k]
             below == ShapesRec(s, inst.cell, d - 1)
         IN  [i \in 1..Len(below) |-> TransShape(inst.trans, below[i])]
             \o InstShapes(s, c, k + 1, d)

\* KCell.flatten(): the backend takes the shapes of the instances into the
\* cell and dissolves the instances, the wrapper list is emptied.  (The
\* merge of each layer's region keeps what the layer covers; the shapes are
\* kept here as the pieces that cover it.)
KCell_flatten(s, c) ==
    [s EXCEPT !.shapes[c] = ShapesRec(s, c, Len(s.kname)),
              !.kinsts[c] = << >>, !.insts[c] = << >>]

\* InstancePorts.__getitem__(key) of the instance inst = [cell, trans];
\* the port index k is known to exist
InstancePorts_getitem(s, inst, k) ==
    IF ~IsComplex(inst.trans) THEN Port_copy(s.ports[inst.cell][k], inst.trans)
    ELSE Port_copy_cplx(s.ports[inst.cell][k], inst.trans)

\* mutant: the layer is checked before the width
ConnectCheck_layer_first(p, op, aw, al, at) ==
    IF p.layer # op.layer /\ ~al THEN "PortLayerMismatch"
    ELSE IF ~WidthEq(p, op) /\ ~aw THEN "PortWidthMismatch"
    ELSE IF p.port_type # op.port_type /\ ~at THEN "PortTypeMismatch"
    ELSE ""

\* the checks of Instance.connect in their order; "" if all pass
ConnectCheck(p, op, aw, al, at) ==
    IF ~WidthEq(p, op) /\ ~aw THEN "PortWidthMismatch"
    ELSE IF p.layer # op.layer /\ ~al THEN "PortLayerMismatch"
    ELSE IF p.port_type # op.port_type /\ ~at THEN "PortTypeMismatch"
    ELSE ""

\* the transformation Instance.connect gives the instance, whose own is cur
ConnectTrans(cur, p, op, mirror) ==
    IF is_simple_port(op)
    THEN Mul(Mul(op.trans, IF mirror THEN M90 ELSE R180), Inverted(p.trans))
    ELSE cur

\* `other` of Instance.connect: an Instance (parent cell, wrapper index),
\* a Port, or anything else
OtherInst(c, i) == [kind |-> "Instance", cell |-> c, idx |-> i, port |-> 0]
OtherPort(p) == [kind |-> "Port", cell |-> 0, idx |-> 0, port |-> p]
OtherBad == [kind |-> "Other", cell |-> 0, idx |-> 0, port |-> 0]

\* Resolving `other` to op: [err, op]
ConnectOp(s, other, other_port_name) ==
    IF other.kind = "Instance"
    THEN IF other_port_name = "" THEN [err |-> "ValueError", op |-> 0]
         ELSE LET inst == s.kinsts[other.cell][s.insts[other.cell][other.idx]]
                  get(k) == IF k = 0 THEN [err |-> "StopIteration", op |-> 0]
                            ELSE [err |-> "", op |-> InstancePorts_getitem(s, inst, k)]
              IN  get(Ports_index(s.ports[inst.cell], other_port_name))
    ELSE IF other.kind = "Port" THEN [err |-> "", op |-> other.port]
    ELSE [err |-> "ValueError", op |-> 0]

\* Instance.connect(portname, other, other_port_name, mirror, allow_*) on
\* the i-th instance wrapper of cell c
Instance_connect(s, c, i, portname, other, other_port_name, mirror, aw, al, at) ==
    LET ki == s.insts[c][i]
        inst == s.kinsts[c][ki]
        place(p, op, e) ==
            IF e # "" THEN Fail(s, e)
            ELSE [s EXCEPT !.kinsts[c][ki].trans = ConnectTrans(inst.trans, p, op, mirror)]
        check(p, op) == place(p, op, ConnectCheck(p, op, aw, al, at))
        find(r, k) ==
            IF r.err # "" THEN Fail(s, r.err)
            ELSE IF k = 0 THEN Fail(s, "StopIteration")
            ELSE check(s.ports[inst.cell][k], r.op)
    IN  find(ConnectOp(s, other, other_port_name),
             Ports_index(s.ports[inst.cell], portname))

(* ----------------------- the cell decorator --------------------------- *)

\* The decorated function f(a = 1): its signature and defaults
ParamNames == <<"a">>
ParamSet == {ParamNames[i] : i \in 1..Len(ParamNames)}
DefaultOf(p) == 1
Vals == 1..MaxVal

\* the calls: positional arguments and keyword arguments
ArgLists == UNION {[1..n -> Vals] : n \in 0..Len(ParamNames)}
KwArgs == UNION {[d -> Vals] : d \in SUBSET ParamSet}

\* mutant: the keyword arguments are not bound
Bind_positional(args, kwargs) ==
    [p \in ParamSet |->
        LET i == CHOOSE j \in 1..Len(ParamNames) : ParamNames[j] = p
        IN  IF i <= Len(args) THEN args[i] ELSE DefaultOf(p)]

\* wrapper_autocell: defaults, then the positional arguments in signature
\* order, then params.update(kwargs)
Bind(args, kwargs) ==
    [p \in ParamSet |->
        LET i == CHOOSE j \in 1..Len(ParamNames) : ParamNames[j] = p
        IN  IF p \in DOMAIN kwargs THEN kwargs[p]
            ELSE IF i <= Len(args) THEN args[i]
            ELSE DefaultOf(p)]

\* cachetools.keys.hashkey(**params): the items sorted by parameter name
\* (ParamNames is in that order)
HashKey(params) == [i \in 1..Len(ParamNames) |-> <<ParamNames[i], params[ParamNames[i]]>>]

Keys == {HashKey(p) : p \in [ParamSet -> Vals]}

\* mutant: the cache is never consulted
CacheHas_never(ch, key) == FALSE

\* key in cache / cache[key]
CacheHas(ch, key) == \E i \in 1..Len(ch) : ch[i].key = key
CacheGet(ch, key) == ch[CHOOSE i \in 1..Len(ch) : ch[i].key = key].val

\* KCellCache.popitem(): cachetools.Cache gives up the first key it holds
Cache_popitem(ch) == Tail(ch)

\* Cache.__setitem__(key, value) for a key the cache does not hold: pop
\* until the new entry fits; a cache of size 0 takes nothing (the ValueError
\* is swallowed by cachetools.cached)
RECURSIVE Cache_setitem(_, _, _, _)
Cache_setitem(ch, key, val, maxsize) ==
    IF maxsize < 1 THEN ch
    ELSE IF Len(ch) + 1 > maxsize THEN Cache_setitem(Cache_popitem(ch), key, val, maxsize)
    ELSE Append(ch, [key |-> key, val |-> val])

\* get_component_name(f.__name__, **params): "f_A<a>"
get_component_name(params) ==
    [base |-> "f", args |-> [i \in 1..Len(ParamNames) |-> params[ParamNames[i]]],
     dup |-> << >>]

\* What the body of f does: it makes a cell (name "" for KCell()), or hands
\* back a cell that exists
BodyNew(name) == [kind |-> "new", name |-> name, cell |-> 0]
BodyOld(c) == [kind |-> "old", name |-> "", cell |-> c]

\* cell = f(**params)
RunBody(s, body) ==
    IF body.kind = "new" THEN KCell_init(s, body.name)
    ELSE [s EXCEPT !.new = body.cell]

\* mutant: a locked cell is published as it is
CopyIfLocked_never(s, c) == [s EXCEPT !.new = c]

\* if cell._locked: cell = cell.copy()
CopyIfLocked(s, c) == IF s.locked[c] THEN KCell_copy(s, c) ELSE [s EXCEPT !.new = c]

\* if set_name: cell.name = get_component_name(f.__name__, **params)
AutoName(s, c, params, set_name) ==
    IF set_name THEN KCell_set_name(s, c, get_component_name(params)) ELSE s

\* if set_settings: cell.settings.update(params)
AutoSettings(s, c, params, set_settings) ==
    IF set_settings
    THEN [s EXCEPT !.settings[c] =
            [k \in (DOMAIN @) \cup ParamSet |-> IF k \in ParamSet THEN params[k] ELSE @[k]]]
    ELSE s

\* mutant: the cell is published unlocked
LockCell_skip(s, c) == s

\* cell._locked = True
LockCell(s, c) == [s EXCEPT !.locked[c] = TRUE]

\* wrapped_cell(**params): the body of f, then the publication of its cell;
\* new is the cell returned
wrapped_cell(s, params, body, opts) ==
    LET lock(n) == IF n.err # "" THEN n
                   ELSE LockCell(AutoSettings(n, n.new, params, opts.set_settings), n.new)
        name(d) == IF d.err # "" THEN d ELSE lock(AutoName(d, d.new, params, opts.set_name))
        copy(b) == IF b.err # "" THEN b ELSE name(CopyIfLocked(b, b.new))
    IN  copy(RunBody(s, body))

(* ------------------------------ Init ---------------------------------- *)

\* The options a function is decorated with: @autocell (the defaults) or
\* @cell(set_settings=False)
DecoChoices == {[set_name |-> TRUE, set_settings |-> TRUE, maxsize |-> MaxSize],
                [set_name |-> FALSE, set_settings |-> FALSE, maxsize |-> MaxSize]}

\* An empty library (library = KLib()) and a function freshly decorated with
\* some choice of options
Init ==
    /\ kname = << >>
    /\ kcells = EmptyMap
    /\ wrapped = {}
    /\ locked = << >>
    /\ ports = << >>
    /\ kinsts = << >>
    /\ insts = << >>
    /\ shapes = << >>
    /\ settings = << >>
    /\ deco \in DecoChoices
    /\ cache = << >>
    /\ owner = << >>
    /\ liveRet = [k \in Keys |-> 0]
    /\ used = << >>
    /\ cross_sections = EmptyMap
    /\ lastOp = [op |-> "init"]

\* owner has one entry per backend cell
OwnerSync == owner' = [i \in 1..Len(kname') |-> IF i <= Len(owner) THEN owner[i] ELSE << >>]

DecoUnchanged == OwnerSync /\ UNCHANGED <<deco, cache, liveRet, used, cross_sections>>

(* ---------------------- registry operations --------------------------- *)

\* KCell(name) / KCell()
NewCell(name) ==
    /\ Len(kname) < MaxCells
    /\ LET done(r) == /\ Commit(r)
                       /\ lastOp' = [op |-> "KCell", cell |-> r.new, err |-> r.err,
                                     had |-> (name # "" /\ Name(name) \in DOMAIN kcells),
                                     same |-> (r.kcells = kcells /\ r.kname = kname)]
       IN  done(KCell_init(St, name))
    /\ DecoUnchanged

\* cell.name = new_name
SetName(c, new_name) ==
    /\ c \in wrapped
    /\ LET done(r) == /\ Commit(r)
                       /\ lastOp' = [op |-> "set_name", cell |-> c, err |-> r.err]
       IN  done(KCell_set_name(St, c, Name(new_name)))
    /\ DecoUnchanged

\* cell.copy()
Copy(c) ==
    /\ c \in wrapped
    /\ Len(kname) < MaxCells
    /\ Total(ports) + Len(ports[c]) <= MaxPorts
    /\ Total(kinsts) + Len(kinsts[c]) + Len(insts[c]) <= MaxInsts
    /\ LET done(r) == /\ Commit(r)
                       /\ lastOp' = [op |-> "copy", cell |-> c, err |-> r.err,
                                     new |-> IF r.err = "" THEN r.new ELSE 0]
       IN  done(KCell_copy(St, c))
    /\ DecoUnchanged

\* library.register_cell(cell)
RegisterCell(c) ==
    /\ c \in wrapped
    /\ LET done(r) == /\ Commit(r)
                       /\ lastOp' = [op |-> "register_cell", cell |-> c, err |-> r.err,
                                     had |-> (kname[c] \in DOMAIN kcells),
                                     same |-> (r.kcells = kcells /\ r.kname = kname)]
       IN  done(KLib_register_cell(St, c))
    /\ DecoUnchanged

(* ------------------------ decorated calls ----------------------------- *)

Bodies == {BodyNew(n) : n \in UserNames \cup {""}} \cup {BodyOld(c) : c \in wrapped}

\* a use of key: it becomes the most recently used one
Touch(u, key) ==
    LET Other(k) == k # key
    IN  Append(SelectSeq(u, Other), key)

\* the keys of u that the cache ch holds
Held(u, ch) ==
    LET In(k) == CacheHas(ch, k)
    IN  SelectSeq(u, In)

\* cachetools.cached: return cache[k] if it is there
CallHit(args, kwargs) ==
    LET hit(key, v) ==
            /\ lastOp' = [op |-> "call", key |-> key, bykw |-> (kwargs # EmptyMap),
                          args |-> args, kwargs |-> kwargs,
                          err |-> "", ret |-> v, ran |-> FALSE,
                          prev |-> liveRet[key], was |-> owner[v], handed |-> 0]
            /\ owner' = [owner EXCEPT ![v] = IF @ = << >> THEN key ELSE @]
            /\ liveRet' = [liveRet EXCEPT ![key] = v]
            /\ used' = Touch(used, key)
        look(key) == CacheHas(cache, key) /\ hit(key, CacheGet(cache, key))
    IN  /\ look(HashKey(Bind(args, kwargs)))
        /\ UNCHANGED <<kname, kcells, wrapped, locked, ports, kinsts, insts, shapes,
                       settings, deco, cache, cross_sections>>

\* cachetools.cached: otherwise v = wrapped_cell(**params); cache[k] = v
CallMiss(args, kwargs, body) ==
    LET store(key, r, ch) ==
            IF r.err = ""
            THEN /\ cache' = ch
                 /\ liveRet' = [k \in Keys |->
                                   IF k = key THEN r.new
                                   ELSE IF CacheHas(cache, k) /\ ~CacheHas(ch, k) THEN 0
                                   ELSE liveRet[k]]
                 /\ used' = IF CacheHas(ch, key) THEN Touch(Held(used, ch), key) ELSE used
            ELSE UNCHANGED <<cache, liveRet, used>>
        miss(key, r, b) ==
            /\ Commit(r)
            /\ lastOp' = [op |-> "call", key |-> key, bykw |-> (kwargs # EmptyMap),
                          args |-> args, kwargs |-> kwargs,
                          err |-> r.err, ret |-> IF r.err = "" THEN r.new ELSE 0,
                          ran |-> TRUE, prev |-> liveRet[key],
                          was |-> IF r.err = "" /\ r.new <= Len(owner) THEN owner[r.new]
                                  ELSE << >>,
                          handed |-> IF b.err = "" THEN b.new ELSE 0]
            /\ owner' = [i \in 1..Len(r.kname) |->
                            IF i <= Len(owner) /\ owner[i] # << >> THEN owner[i]
                            ELSE IF r.err = "" /\ i = r.new THEN key
                            ELSE << >>]
            /\ store(key, r, Cache_setitem(cache, key, r.new, deco.maxsize))
        run(params, key) ==
            /\ ~CacheHas(cache, key)
            /\ miss(key, wrapped_cell(St, params, body, deco), RunBody(St, body))
        bound(params) == run(params, HashKey(params))
    IN  /\ Len(kname) < MaxCells
        /\ bound(Bind(args, kwargs))
        /\ UNCHANGED <<deco, cross_sections>>

\* the decorated function and the cells its body makes or finds
NextDeco ==
    \/ NewCell("")
    \/ \E c \in Cells : Copy(c)
    \/ \E a \in ArgLists, k \in KwArgs : CallHit(a, k)
    \/ \E a \in ArgLists, k \in KwArgs, b \in Bodies : CallMiss(a, k, b)

SpecDeco == Init /\ [][NextDeco]_vars

\* every operation of the registry, the cells and the decorated function
NextReg ==
    \/ \E n \in UserNames \cup {""} : NewCell(n)
    \/ \E c \in Cells, n \in UserNames : SetName(c, n)
    \/ \E c \in Cells : Copy(c)
    \/ \E c \in Cells : RegisterCell(c)
    \/ \E a \in ArgLists, k \in KwArgs : CallHit(a, k)
    \/ \E a \in ArgLists, k \in KwArgs, b \in Bodies : CallMiss(a, k, b)

SpecReg == Init /\ [][NextReg]_vars

(* --------------------- claims on the decorator ------------------------ *)

\* C1: a call whose bound arguments equal those of an earlier call, with the
\* entry not evicted since, returns the cell the earlier call returned and
\* does not run the body of the function again.
C1_CacheDeterminism ==
    (lastOp.op = "call" /\ lastOp.err = "" /\ lastOp.prev # 0)
        => (lastOp.ret = lastOp.prev /\ ~lastOp.ran)

\* a keyword call answered with the cell of an earlier call
C1_Witness ==
    lastOp.op = "call" /\ lastOp.err = "" /\ lastOp.prev # 0 /\ lastOp.bykw

\* C2: a cell returned for one set of bound arguments is never returned for
\* another one, also when the body hands back a cell that is locked already.
C2_DifferentArgsDifferentCells ==
    (lastOp.op = "call" /\ lastOp.err = "")
        => (lastOp.was = << >> \/ lastOp.was = lastOp.key)

\* the body handed back a cell published for other arguments, and the call
\* returned
C2_Witness ==
    /\ lastOp.op = "call" /\ lastOp.err = "" /\ lastOp.ran
    /\ lastOp.handed # 0
    /\ owner[lastOp.handed] # << >>
    /\ owner[lastOp.handed] # lastOp.key

\* C4: the cell a decorated call returns is locked, on a miss and on a hit,
\* and every value the cache holds is a locked cell.
C4_ReturnedCellsLocked ==
    /\ \A i \in 1..Len(cache) : locked[cache[i].val]
    /\ (lastOp.op = "call" /\ lastOp.err = "") => locked[lastOp.ret]

\* a hit returned a cell after a copy of a cached cell was taken
C4_Witness ==
    /\ lastOp.op = "call" /\ lastOp.err = "" /\ ~lastOp.ran
    /\ \E c \in wrapped : ~locked[c] /\ kname[c].dup # << >>

\* C5: no two cells of the registry share a name.
C5_CellNamesUnique ==
    \A c1 \in wrapped, c2 \in wrapped : c1 # c2 => kname[c1] # kname[c2]

(* ------------------------ mutators of a cell -------------------------- *)

PortNameSeq == <<"o1", "o2", "o3">>
PortNames == {PortNameSeq[i] : i \in 1..MaxPorts}

\* the ports handed to create_port / add_port
PortMenu == {Port(PortNameSeq[i], R0, i, 1, "optical") : i \in 1..MaxPorts}

\* KCell.autorename_ports(rename_func) with a rename_func that names the
\* ports o1, o2, ... in list order
KCell_autorename_ports(s, c) ==
    [s EXCEPT !.ports[c] = [i \in 1..Len(@) |-> [@[i] EXCEPT !.name = PortNameSeq[i]]]]

\* cell.ports = new_ports: the setter stores a copy
KCell_set_ports(s, c, new_ports) == [s EXCEPT !.ports[c] = Ports_copy(new_ports)]

\* cell.settings = {"a": v}
KCell_set_settings(s, c, v) == [s EXCEPT !.settings[c] = [k \in ParamSet |-> v]]

\* what a mutator of cell c did: r is the state it leaves
Mutated(op, c, r) ==
    /\ Commit(r)
    /\ lastOp' = [op |-> op, cell |-> c, err |-> r.err, lockd |-> locked[c],
                  ret |-> r.new,
                  same |-> /\ r.ports[c] = ports[c]
                           /\ r.insts[c] = insts[c]
                           /\ r.kinsts[c] = kinsts[c]
                           /\ r.shapes[c] = shapes[c]
                           /\ r.settings[c] = settings[c]]
    /\ DecoUnchanged

\* cell.create_port(name=, trans=, width=, layer=, port_type=)
CreatePort(c, p) ==
    /\ c \in wrapped
    /\ Total(ports) < MaxPorts
    /\ Mutated("create_port", c, KCell_create_port(St, c, p))

\* cell.add_port(port, name)
AddPort(c, p, name) ==
    /\ c \in wrapped
    /\ Total(ports) < MaxPorts
    /\ Mutated("add_port", c, KCell_add_port(St, c, p, name))

\* cell.create_inst(child) / cell << child, for a child that has no
\* instances of its own (the backend refuses a recursive hierarchy)
CreateInst(c, child) ==
    /\ c \in wrapped
    /\ child \in wrapped
    /\ child # c
    /\ kinsts[child] = << >>
    /\ Total(kinsts) < MaxInsts
    /\ Mutated("create_inst", c, KCell_create_inst(St, c, child, R0))

\* cell.flatten()
Flatten(c) ==
    /\ c \in wrapped
    /\ Mutated("flatten", c, KCell_flatten(St, c))

\* cell.autorename_ports(rename_func)
AutorenamePorts(c) ==
    /\ c \in wrapped
    /\ Mutated("autorename_ports", c, KCell_autorename_ports(St, c))

\* cell.ports = other.ports
SetPorts(c, other) ==
    /\ c \in wrapped
    /\ other \in wrapped
    /\ Total(ports) - Len(ports[c]) + Len(ports[other]) <= MaxPorts
    /\ Mutated("set_ports", c, KCell_set_ports(St, c, ports[other]))

\* cell.settings = {"a": v}
SetSettings(c, v) ==
    /\ c \in wrapped
    /\ Mutated("set_settings", c, KCell_set_settings(St, c, v))

Mutators == {"create_port", "add_port", "create_inst", "flatten",
             "autorename_ports", "set_ports", "set_settings"}

\* the cells a decorated call has published
Published == {c \in Cells : locked[c]}

\* cells, the call f() that publishes one, and the mutators called on a
\* published cell
NextCell ==
    \/ NewCell("")
    \/ \E b \in Bodies : CallMiss(<< >>, EmptyMap, b)
    \/ \E c \in Published, p \in PortMenu : CreatePort(c, p)
    \/ \E c \in Published, p \in PortMenu, n \in PortNames \cup {""} : AddPort(c, p, n)
    \/ \E c \in Published, d \in Cells : CreateInst(c, d)
    \/ \E c \in Published : Flatten(c)
    \/ \E c \in Published : AutorenamePorts(c)
    \/ \E c \in Published, d \in Cells : SetPorts(c, d)
    \/ \E c \in Published, v \in Vals : SetSettings(c, v)

SpecCell == Init /\ [][NextCell]_vars

\* one library, its cells and the two ways to give a cell a port
NextPorts ==
    \/ \E n \in UserNames \cup {""} : NewCell(n)
    \/ \E c \in Cells, p \in PortMenu : CreatePort(c, p)
    \/ \E c \in Cells, p \in PortMenu, n \in PortNames \cup {""} : AddPort(c, p, n)
    \/ \E c \in Cells : AutorenamePorts(c)

SpecPorts == Init /\ [][NextPorts]_vars

(* ------------------- claims on cells and ports ------------------------ *)

\* C3: a mutator called on a locked cell raises the Frozen error and leaves
\* the ports, instances and settings of the cell as they were.
C3_LockedCellsImmutable ==
    (lastOp.op \in Mutators /\ lastOp.lockd)
        => (lastOp.err = "FrozenError" /\ lastOp.same)

\* C6: no two ports of a cell share a name, and a create_port or add_port
\* that asks for a name in use is rejected and leaves the ports as they were.
C6_PortNamesUnique ==
    /\ \A c \in wrapped : \A i \in 1..Len(ports[c]), j \in 1..Len(ports[c]) :
            i # j => ports[c][i].name # ports[c][j].name
    /\ (lastOp.op \in {"create_port", "add_port"} /\ lastOp.err # "") => lastOp.same

(* --------------------------- connecting ------------------------------- *)

\* the empty library
Empty ==
    [kname |-> << >>, kcells |-> EmptyMap, wrapped |-> {}, locked |-> << >>,
     ports |-> << >>, kinsts |-> << >>, insts |-> << >>, shapes |-> << >>,
     settings |-> << >>, err |-> "", new |-> 0]

\* child = KCell("a") with the ports o1 (width 1) and o2 (width 2);
\* top = KCell(); top << child, twice
Layout ==
    LET insts2(s) == KCell_create_inst(KCell_create_inst(s, 2, 1, R0), 2, 1, R0)
        top(s) == insts2(KCell_init(s, ""))
        port2(s) == top(KCell_create_port(s, 1, Port("o2", Trans(0, FALSE, 1, 0), 2, 1, "optical")))
        port1(s) == port2(KCell_create_port(s, 1, Port("o1", Trans(2, FALSE, 0, 0), 1, 1, "optical")))
    IN  port1(KCell_init(Empty, "a"))

InitConn ==
    /\ kname = Layout.kname
    /\ kcells = Layout.kcells
    /\ wrapped = Layout.wrapped
    /\ locked = Layout.locked
    /\ ports = Layout.ports
    /\ kinsts = Layout.kinsts
    /\ insts = Layout.insts
    /\ shapes = Layout.shapes
    /\ settings = Layout.settings
    /\ deco = [set_name |-> TRUE, set_settings |-> TRUE, maxsize |-> MaxSize]
    /\ cache = << >>
    /\ owner = [i \in 1..Len(Layout.kname) |-> << >>]
    /\ liveRet = [k \in Keys |-> 0]
    /\ used = << >>
    /\ cross_sections = EmptyMap
    /\ lastOp = [op |-> "init"]

\* the ports handed to connect as `other`
OtherPorts ==
    {Port("p", Trans(r, FALSE, 1, 0), w, l, t) :
        r \in 0..1, w \in 1..2, l \in 1..2, t \in {"optical", "electrical"}}

\* the instance wrappers of cell c
Insts(c) == 1..Len(insts[c])

\* magnifications an instance is given
Mags == 1..2

\* inst.cplx_trans = kdb.ICplxTrans(mag) * inst.trans: the attribute is set
\* on the backend instance
Instance_set_mag(s, c, i, mag) == [s EXCEPT !.kinsts[c][s.insts[c][i]].trans.mag = mag]

SetCplx(c, i, mag) ==
    /\ c \in wrapped
    /\ i \in Insts(c)
    /\ Commit(Instance_set_mag(St, c, i, mag))
    /\ lastOp' = [op |-> "cplx_trans", cell |-> c, inst |-> i, err |-> ""]
    /\ DecoUnchanged

\* what inst.connect(portname, other, other_port_name, ...) did, for the i-th
\* instance of cell c: res is the resolution of `other`, r the state left
Connected(c, i, portname, mirror, aw, al, at, res, r) ==
    LET ki == insts[c][i]
        child == kinsts[c][ki].cell
        k == Ports_index(ports[child], portname)
        found == res.err = "" /\ k # 0
        p == ports[child][k]
        conn == IF mirror THEN M90 ELSE R180
        \* the first of the checks width, layer, type that is not waived and fails
        first == IF ~found THEN ""
                 ELSE IF ~aw /\ ~WidthEq(p, res.op) THEN "PortWidthMismatch"
                 ELSE IF ~al /\ p.layer # res.op.layer THEN "PortLayerMismatch"
                 ELSE IF ~at /\ p.port_type # res.op.port_type THEN "PortTypeMismatch"
                 ELSE ""
    IN  /\ InRange(r.kinsts[c][ki].trans)
        /\ Commit(r)
        /\ lastOp' =
              [op |-> "connect", cell |-> c, inst |-> i, port |-> portname, err |-> r.err,
               same |-> r.kinsts[c][ki].trans = kinsts[c][ki].trans,
               found |-> found,
               first |-> first,
               cplx |-> found /\ ~is_simple_port(res.op),
               want |-> IF found /\ r.err = ""
                        THEN Mul(Mul(res.op.trans, conn), Inverted(p.trans)) ELSE 0,
               face |-> IF found /\ r.err = "" THEN Mul(res.op.trans, conn) ELSE 0]
        /\ DecoUnchanged

Connect(c, i, portname, other, other_port_name, mirror, aw, al, at) ==
    /\ c \in wrapped
    /\ i \in Insts(c)
    /\ Connected(c, i, portname, mirror, aw, al, at,
                 ConnectOp(St, other, other_port_name),
                 Instance_connect(St, c, i, portname, other, other_port_name,
                                  mirror, aw, al, at))

\* inst.connect(portname, port, ...)
ConnectPort(c, i, portname, port, mirror, aw, al, at) ==
    Connect(c, i, portname, OtherPort(port), "", mirror, aw, al, at)

\* inst.connect(portname, other_inst, other_port_name, ...); "" stands for
\* other_port_name = None
ConnectInst(c, i, portname, j, other_port_name, mirror, aw, al, at) ==
    /\ j \in Insts(c)
    /\ j # i
    /\ Connect(c, i, portname, OtherInst(c, j), other_port_name, mirror, aw, al, at)

\* inst.connect(portname, other) with an `other` that is neither
ConnectOther(c, i, portname) ==
    Connect(c, i, portname, OtherBad, "", FALSE, FALSE, FALSE, FALSE)

\* port names asked for: those of the child and one it does not have
AskNames == PortNames \cup {"x"}

\* the first instance of top is connected, to a port or to the second
\* instance, which is given a magnification or not
NextConn ==
    \/ \E c \in Cells, m \in Mags : SetCplx(c, 2, m)
    \/ \E c \in Cells, pn \in AskNames, op \in OtherPorts,
          mirror \in BOOLEAN, aw \in BOOLEAN, al \in BOOLEAN, at \in BOOLEAN :
            ConnectPort(c, 1, pn, op, mirror, aw, al, at)
    \/ \E c \in Cells, pn \in AskNames, opn \in AskNames \cup {""},
          mirror \in BOOLEAN, aw \in BOOLEAN, al \in BOOLEAN, at \in BOOLEAN :
            ConnectInst(c, 1, pn, 2, opn, mirror, aw, al, at)
    \/ \E c \in Cells, pn \in AskNames : ConnectOther(c, 1, pn)

SpecConn == InitConn /\ [][NextConn]_vars

(* ----------------------- claims on connect ---------------------------- *)

\* the transformation of the instance the last connect was called on
ConnectedTrans == kinsts[lastOp.cell][insts[lastOp.cell][lastOp.inst]].trans

\* the port of the instantiated cell the last connect named
ConnectedPort ==
    LET child == kinsts[lastOp.cell][insts[lastOp.cell][lastOp.inst]].cell
    IN  ports[child][Ports_index(ports[child], lastOp.port)]

\* C7: after a connect that returned, the transformation of the instance is
\* op.trans * conn * p.trans.inverted(), and the instance's port pname sits at
\* op.trans * conn, for a simple other port and for the port of a complex
\* instance alike.
C7_ConnectTransform ==
    (lastOp.op = "connect" /\ lastOp.err = "")
        => /\ ConnectedTrans = lastOp.want
           /\ Mul(ConnectedTrans, ConnectedPort.trans) = lastOp.face

\* C8: connect raises the error of the first check of width, layer, type that
\* is not waived and fails, and a connect that raised, whatever the error,
\* leaves the transformation of the instance as it was.
C8_ConnectChecks ==
    lastOp.op = "connect"
        => /\ lastOp.found => lastOp.err = lastOp.first
           /\ lastOp.err # "" => lastOp.same

\* a connect of an instance that had been moved before was refused for the
\* layer, the width matching or its check waived
C8_Witness ==
    /\ lastOp.op = "connect"
    /\ lastOp.err = "PortLayerMismatch"
    /\ ConnectedTrans # R0

(* -------------------------- single wires ------------------------------ *)

\* shapes in the library
MaxShapes == 1
\* points of a backbone
MaxPts == 3

\* lengths are real numbers in the code; they are kept to 1 / Scale here
Scale == 100

\* floor(sqrt(m)) of m in 1 / Scale^2: the whole part first, then the rest
ISqrt(m) ==
    LET whole == CHOOSE h \in 0..(2 * MaxCoord) :
                    (h * Scale) * (h * Scale) <= m /\ m < ((h + 1) * Scale) * ((h + 1) * Scale)
    IN  CHOOSE r \in (whole * Scale)..(whole * Scale + Scale - 1) :
            r * r <= m /\ m < (r + 1) * (r + 1)

\* (b - a).length() of kdb.Point, in 1 / Scale
Dist(a, b) ==
    ISqrt(((b[1] - a[1]) * (b[1] - a[1]) + (b[2] - a[2]) * (b[2] - a[2])) * Scale * Scale)

\* round(length)
Round(length) == (length + Scale \div 2) \div Scale

\* int(length)
ToInt(length) == length \div Scale

\* the loop of place_single_wire over pts[k..]: pt1 stays pts[0]
RECURSIVE WireLength(_, _, _)
WireLength(pts, k, length) ==
    IF k > Len(pts) THEN length
    ELSE WireLength(pts, k + 1, length + Dist(pts[1], pts[k]))

\* ManhattanRoute.length_backbone: the loop over backbone[k..]
RECURSIVE BackboneLength(_, _, _)
BackboneLength(backbone, k, length) ==
    IF k > Len(backbone) THEN length
    ELSE BackboneLength(backbone, k + 1, length + ToInt(Dist(backbone[k - 1], backbone[k])))

length_backbone(route) == BackboneLength(route.backbone, 2, 0)

\* place_single_wire(c, p1, p2, pts, route_width, layer_info, **kwargs);
\* 0 stands for None, kwargs tells whether any were given; new is the route
place_single_wire(s, c, p1, p2, pts, route_width, layer_info, kwargs) ==
    LET layer == IF layer_info = 0 THEN p1.layer ELSE layer_info
        width == IF route_width = 0 THEN p1.width ELSE route_width
    IN  IF kwargs THEN Fail(s, "ValueError")
        ELSE [s EXCEPT
                !.shapes[c] = Append(@, [layer |-> layer, pts |-> pts, width |-> width]),
                !.new = [backbone |-> pts, start_port |-> p1, end_port |-> p2,
                         layer |-> layer,
                         length_straights |-> Round(WireLength(pts, 2, 0))]]

Points == (0..MaxCoord) \X (0..MaxCoord)

\* Manhattan backbones: consecutive points differ in one coordinate, and
\* the wire does not turn back at a point
Backbones ==
    UNION {{pts \in [1..n -> Points] :
                /\ \A i \in 1..(n - 1) :
                      /\ pts[i] # pts[i + 1]
                      /\ pts[i][1] = pts[i + 1][1] \/ pts[i][2] = pts[i + 1][2]
                /\ \A i \in 1..(n - 2) :
                      (pts[i + 1][1] - pts[i][1]) * (pts[i + 2][1] - pts[i + 1][1])
                        + (pts[i + 1][2] - pts[i][2]) * (pts[i + 2][2] - pts[i + 1][2]) >= 0} :
           n \in 2..MaxPts}

\* place_single_wire(c, p, p, pts, route_width = w, **kwargs)
PlaceSingleWire ==
    LET done(c, r) ==
            /\ Commit(r)
            /\ lastOp' = [op |-> "place_single_wire", cell |-> c, err |-> r.err,
                          route |-> IF r.err = "" THEN r.new ELSE 0]
    IN  /\ Total(shapes) < MaxShapes
        /\ \E c \in wrapped, p \in PortMenu, pts \in Backbones, w \in {0, 2}, kw \in BOOLEAN :
                done(c, place_single_wire(St, c, p, p, pts, w, 0, kw))
        /\ DecoUnchanged

\* place_dual_rails(c, p1, p2, pts, route_width, layer_info,
\* separation_rails, **kwargs); 0 stands for a route_width or layer_info of
\* None, -1 for a separation_rails of None. region is
\* Region(Path(pts, route_width)) - Region(Path(pts, separation_rails)): one
\* rail on each side of the backbone, or the whole wire in one polygon when
\* the separation is 0; region[1] is then None, which the backend does not
\* insert
place_dual_rails(s, c, p1, p2, pts, route_width, layer_info, separation_rails, kwargs) ==
    LET layer == IF layer_info = 0 THEN p1.layer ELSE layer_info
        width == IF route_width = 0 THEN p1.width ELSE route_width
        region == [i \in 1..(IF separation_rails = 0 THEN 1 ELSE 2) |->
                        [layer |-> layer, pts |-> pts, outer |-> width,
                         inner |-> separation_rails, side |-> i]]
        first == [s EXCEPT !.shapes[c] = Append(@, region[1])]
    IN  IF kwargs THEN Fail(s, "ValueError")
        ELSE IF separation_rails = -1 THEN Fail(s, "ValueError")
        ELSE IF separation_rails >= width THEN Fail(s, "ValueError")
        ELSE IF Len(region) < 2 THEN Fail(first, "TypeError")
        ELSE [first EXCEPT
                !.shapes[c] = Append(@, region[2]),
                !.new = [backbone |-> pts, start_port |-> p1, end_port |-> p2,
                         layer |-> layer, polygons |-> region]]

\* place_dual_rails(c, p, p, pts, route_width = w, separation_rails = sep,
\* **kwargs) for a port of width 2 and even widths, which the backend halves
\* without rounding
PlaceDualRails ==
    LET done(c, w, sep, kw, r) ==
            /\ Commit(r)
            /\ lastOp' = [op |-> "place_dual_rails", cell |-> c, err |-> r.err,
                          route_width |-> w, separation_rails |-> sep, kwargs |-> kw,
                          before |-> shapes[c],
                          route |-> IF r.err = "" THEN r.new ELSE 0]
    IN  /\ Total(shapes) < MaxShapes
        /\ \E c \in wrapped, p \in {q \in PortMenu : q.width = 2}, pts \in Backbones,
              w \in {0, 4}, sep \in {-1, 0, 2, 4}, kw \in BOOLEAN :
                done(c, IF w = 0 THEN p.width ELSE w, sep, kw,
                     place_dual_rails(St, c, p, p, pts, w, 0, sep, kw))
        /\ DecoUnchanged

NextWire ==
    \/ NewCell("")
    \/ PlaceSingleWire
    \/ PlaceDualRails

SpecWire == Init /\ [][NextWire]_vars

\* C9: the route place_single_wire returns has length_straights equal to the
\* sum of the distances of consecutive backbone points, which for a
\* Manhattan backbone is the route's length_backbone.
C9_SingleWireLength ==
    (lastOp.op = "place_single_wire" /\ lastOp.err = "")
        => lastOp.route.length_straights = length_backbone(lastOp.route)

(* ----------------------------- bundles -------------------------------- *)

\* port pairs of a bundle
MaxRouters == 2

\* the i-th start port looks east from (0, i - 1), the i-th end port looks
\* west from (MaxCoord, i - 1)
StartPort(i) == Port(PortNameSeq[i], Trans(0, FALSE, 0, i - 1), 1, 1, "electrical")
EndPort(i) == Port(PortNameSeq[i], Trans(2, FALSE, MaxCoord, i - 1), 1, 1, "electrical")

\* what a routing function returns for n port pairs: a router per pair, its
\* backbone the straight line between the two ports
Routers(n) ==
    [i \in 1..n |->
        [start_transformation |-> StartPort(i).trans,
         end_transformation |-> EndPort(i).trans,
         pts |-> <<<<0, i - 1>>, <<MaxCoord, i - 1>>>>]]

\* {p.trans: p for p in ports}[trans]: the last port with that transformation
Mapping(ps, trans) ==
    ps[CHOOSE i \in 1..Len(ps) :
            ps[i].trans = trans /\ \A j \in (i + 1)..Len(ps) : ps[j].trans # trans]

\* what happens during a call, in order
Placed(i, ok) == [ev |-> "place", router |-> i, ok |-> ok]
Shown == [ev |-> "show", router |-> 0, ok |-> TRUE]
Checked == [ev |-> "check_collisions", router |-> 0, ok |-> TRUE]

\* placer_function(c, p1, p2, pts): place_single_wire, behind a placer that
\* raises for the routers in bad
Placer(s, c, p1, p2, pts, raises) ==
    IF raises THEN Fail(s, "Exception")
    ELSE place_single_wire(s, c, p1, p2, pts, 0, 0, FALSE)

\* mutant: the loop ends at the first placer that raises
RECURSIVE PlaceAll_stop(_, _, _, _, _, _, _)
PlaceAll_stop(a, c, routers, sps, eps, bad, k) ==
    LET next(r) ==
            IF r.err # "" THEN [a EXCEPT !.errors = @ + 1, !.log = Append(@, Placed(k, FALSE))]
            ELSE PlaceAll_stop([a EXCEPT !.s = [r EXCEPT !.new = 0],
                                         !.routes = Append(@, r.new),
                                         !.log = Append(@, Placed(k, TRUE))],
                               c, routers, sps, eps, bad, k + 1)
    IN  IF k > Len(routers) THEN a
        ELSE next(Placer(a.s, c, sps[k], eps[k], routers[k].pts, k \in bad))

\* the placer loop of route_bundle over routers[k..]; a holds the state, the
\* routes, the number of placer errors and what happened so far
RECURSIVE PlaceAll(_, _, _, _, _, _, _)
PlaceAll(a, c, routers, sps, eps, bad, k) ==
    LET next(r) ==
            PlaceAll(IF r.err # ""
                     THEN [a EXCEPT !.errors = @ + 1, !.log = Append(@, Placed(k, FALSE))]
                     ELSE [a EXCEPT !.s = [r EXCEPT !.new = 0],
                                    !.routes = Append(@, r.new),
                                    !.log = Append(@, Placed(k, TRUE))],
                     c, routers, sps, eps, bad, k + 1)
    IN  IF k > Len(routers) THEN a
        ELSE next(Placer(a.s, c, sps[k], eps[k], routers[k].pts, k \in bad))

\* c.name = c.name[: config.max_cellname_length] and the raise of
\* check_collisions, as they happen during a call
Renamed == [ev |-> "set_name", router |-> 0, ok |-> TRUE]
Raised == [ev |-> "raise", router |-> 0, ok |-> FALSE]

\* mutant: the report is shown whatever on_collision asks for
check_collisions_show_always(a, on_collision, edges, overlap) ==
    LET b == [a EXCEPT !.log = Append(@, Checked)]
    IN  IF on_collision = "none" THEN b
        ELSE IF ~edges THEN b
        ELSE IF ~overlap THEN [b EXCEPT !.log = Append(@, Renamed)]
        ELSE [b EXCEPT !.log = @ \o <<Renamed, Shown, Raised>>, !.err = "RuntimeError"]

\* check_collisions(on_collision): edges tells whether the routers report
\* colliding edges, overlap whether route polygons or instances overlap on a
\* checked layer (any_layer_collision)
check_collisions(a, on_collision, edges, overlap) ==
    LET b == [a EXCEPT !.log = Append(@, Checked)]
    IN  IF on_collision = "none" THEN b
        ELSE IF ~edges THEN b
        ELSE IF ~overlap THEN [b EXCEPT !.log = Append(@, Renamed)]
        ELSE IF on_collision = "show_error"
             THEN [b EXCEPT !.log = @ \o <<Renamed, Shown, Raised>>, !.err = "RuntimeError"]
        ELSE [b EXCEPT !.log = @ \o <<Renamed, Raised>>, !.err = "RuntimeError"]

\* what follows the placer loop of route_bundle
AfterPlacing(a, on_placer_error, on_collision, edges, overlap) ==
    LET shown == IF a.errors > 0 /\ on_placer_error = "show_error"
                 THEN [a EXCEPT !.log = Append(@, Shown)] ELSE a
    IN  IF a.errors > 0 /\ on_placer_error # "none"
        THEN [shown EXCEPT !.err = "PlacerError"]
        ELSE check_collisions(shown, on_collision, edges, overlap)

\* route_bundle(c, start_ports, end_ports, on_collision, on_placer_error,
\* routing_function, placer_function) for n start ports and m end ports;
\* routed tells whether the routing function returns routers
route_bundle(s, c, n, m, routed, bad, on_placer_error, on_collision, edges, overlap) ==
    LET a0 == [s |-> s, routes |-> << >>, errors |-> 0, log |-> << >>, err |-> ""]
        start_ports == [i \in 1..n |-> StartPort(i)]
        end_ports == [i \in 1..m |-> EndPort(i)]
        routers == IF routed THEN Routers(n) ELSE << >>
        sps == [k \in 1..Len(routers) |-> Mapping(start_ports, routers[k].start_transformation)]
        eps == [k \in 1..Len(routers) |-> Mapping(end_ports, routers[k].end_transformation)]
    IN  IF n = 0 THEN a0
        ELSE IF n # m THEN [a0 EXCEPT !.err = "ValueError"]
        ELSE IF routers = << >> THEN a0
        ELSE AfterPlacing(PlaceAll(a0, c, routers, sps, eps, bad, 1),
                          on_placer_error, on_collision, edges, overlap)

OnError == {"error", "show_error", "none"}

\* the values an argument of check_collisions is drawn from: all of them in
\* the calls of route_bundle that get as far as check_collisions, one
\* otherwise, where it is never read
CollisionInputs(n, m, routed, bad, on_placer_error, all, unread) ==
    IF n > 0 /\ n = m /\ routed /\ (bad = {} \/ on_placer_error = "none")
    THEN all ELSE {unread}

\* c.route_bundle(...) with a routing function and a placer as above
RouteBundle ==
    LET done(c, routers, ope, oc, edges, overlap, a) ==
            /\ Commit(a.s)
            /\ lastOp' = [op |-> "route_bundle", cell |-> c, err |-> a.err,
                          routers |-> routers, on_placer_error |-> ope,
                          on_collision |-> oc, edges |-> edges, overlap |-> overlap,
                          log |-> a.log,
                          routes |-> IF a.err = "" THEN Len(a.routes) ELSE 0]
    IN  /\ Total(shapes) < MaxShapes
        /\ \E c \in wrapped, n \in 0..MaxRouters, m \in 0..MaxRouters, routed \in BOOLEAN,
              ope \in OnError :
            \E bad \in SUBSET (1..n) :
                \E oc \in CollisionInputs(n, m, routed, bad, ope, OnError, "none"),
                   edges \in CollisionInputs(n, m, routed, bad, ope, BOOLEAN, FALSE),
                   overlap \in CollisionInputs(n, m, routed, bad, ope, BOOLEAN, FALSE) :
                    done(c, IF n = m /\ routed THEN n ELSE 0, ope, oc, edges, overlap,
                         route_bundle(St, c, n, m, routed, bad, ope, oc, edges, overlap))
        /\ DecoUnchanged

NextBundle ==
    \/ NewCell("")
    \/ RouteBundle

SpecBundle == Init /\ [][NextBundle]_vars

(* ------------------------ claims on bundles --------------------------- *)

\* the placer calls of the last route_bundle, in order
PlacerCalls ==
    LET IsPlace(e) == e.ev = "place"
    IN  SelectSeq(lastOp.log, IsPlace)

\* C10: route_bundle calls the placer once for every router, in router
\* order, also after a placer call raised; if a call raised and
\* on_placer_error is "error" or "show_error", PlacerError is raised after the
\* last placer call, under "show_error" after one show, and the collision
\* check is not run.
C10_PlacerDrain ==
    (lastOp.op = "route_bundle" /\ lastOp.routers > 0)
        => /\ Len(PlacerCalls) = lastOp.routers
           /\ \A i \in 1..Len(PlacerCalls) : PlacerCalls[i].router = i
           /\ ((\E i \in 1..Len(PlacerCalls) : ~PlacerCalls[i].ok)
                    /\ lastOp.on_placer_error \in {"error", "show_error"})
                => /\ lastOp.err = "PlacerError"
                   /\ lastOp.log = PlacerCalls \o (IF lastOp.on_placer_error = "show_error"
                                                    THEN <<Shown>> ELSE << >>)

\* the first of two placer calls raised, the second placed its route, and the
\* report was shown before PlacerError
C10_Witness ==
    /\ lastOp.op = "route_bundle"
    /\ lastOp.routers = 2
    /\ lastOp.on_placer_error = "show_error"
    /\ lastOp.err = "PlacerError"
    /\ ~lastOp.log[1].ok
    /\ lastOp.log[2].ok
    /\ Len(shapes[lastOp.cell]) = 1

\* C11: when check_collisions finds a collision (colliding edges and an
\* overlap on a checked layer), "show_error" shows the report exactly once
\* and then raises, "error" raises and never shows; under None the call
\* returns without raising, without showing and without touching the cell.
C11_OnCollisionOutcome ==
    LET CollisionLog(at) == SubSeq(lastOp.log, at, Len(lastOp.log))
    IN  lastOp.op = "route_bundle" =>
            \A at \in 1..Len(lastOp.log) :
                lastOp.log[at] = Checked =>
                    /\ lastOp.on_collision = "none"
                        => lastOp.err = "" /\ CollisionLog(at) = <<Checked>>
                    /\ (lastOp.on_collision = "show_error" /\ lastOp.edges /\ lastOp.overlap)
                        => /\ lastOp.err = "RuntimeError"
                           /\ CollisionLog(at) = <<Checked, Renamed, Shown, Raised>>
                    /\ (lastOp.on_collision = "error" /\ lastOp.edges /\ lastOp.overlap)
                        => /\ lastOp.err = "RuntimeError"
                           /\ CollisionLog(at) = <<Checked, Renamed, Raised>>

\* two routes were placed, they collide, and on_collision = "error" raised
\* without a show
C11_Witness ==
    /\ lastOp.op = "route_bundle"
    /\ lastOp.on_collision = "error"
    /\ lastOp.edges /\ lastOp.overlap
    /\ lastOp.routers = 2
    /\ lastOp.err = "RuntimeError"
    /\ lastOp.log = <<Placed(1, TRUE), Placed(2, TRUE), Checked, Renamed, Raised>>

(* ------------------------- the cache's size --------------------------- *)

\* a function decorated with @autocell(maxsize=n), in an empty library
InitCache ==
    /\ kname = << >>
    /\ kcells = EmptyMap
    /\ wrapped = {}
    /\ locked = << >>
    /\ ports = << >>
    /\ kinsts = << >>
    /\ insts = << >>
    /\ shapes = << >>
    /\ settings = << >>
    /\ deco \in {[set_name |-> TRUE, set_settings |-> TRUE, maxsize |-> n] :
                    n \in 0..(MaxSize + 1)}
    /\ cache = << >>
    /\ owner = << >>
    /\ liveRet = [k \in Keys |-> 0]
    /\ used = << >>
    /\ cross_sections = EmptyMap
    /\ lastOp = [op |-> "init"]

\* calls of the decorated function, its body making a new cell each time
NextCache ==
    \/ \E a \in ArgLists, k \in KwArgs : CallHit(a, k)
    \/ \E a \in ArgLists, k \in KwArgs : CallMiss(a, k, BodyNew(""))

SpecCache == InitCache /\ [][NextCache]_vars

\* C12: the cache never holds more than maxsize entries, and an entry that
\* an insert evicts is the least recently used one of a full cache, a hit
\* counting as a use.
C12_CacheEvictsLRU ==
    /\ [](Len(cache) <= deco.maxsize)
    /\ [][\A k \in Keys :
            (CacheHas(cache, k) /\ ~CacheHas(cache', k))
                => (Len(cache) = deco.maxsize /\ k = used[1])]_vars

(* ------------------------ claims on settings -------------------------- *)

\* C13: with set_settings, the cell a call of the decorated function returns
\* has, for every parameter of the signature, settings[param] equal to the
\* value bound for the call: the keyword or positional argument if one is
\* given, the default otherwise.
C13_SettingsAreBoundParams ==
    (lastOp.op = "call" /\ lastOp.err = "" /\ deco.set_settings) =>
        \A i \in 1..Len(ParamNames) :
            LET p == ParamNames[i]
                given == {lastOp.kwargs[q] : q \in {p} \cap DOMAIN lastOp.kwargs}
                            \cup {lastOp.args[j] : j \in {i} \cap DOMAIN lastOp.args}
            IN  /\ p \in DOMAIN settings[lastOp.ret]
                /\ IF given = {} THEN settings[lastOp.ret][p] = DefaultOf(p)
                   ELSE settings[lastOp.ret][p] \in given

\* f(a=2) ran the body and returned a cell with settings a = 2, not the
\* default
C13_Witness ==
    /\ lastOp.op = "call"
    /\ lastOp.err = ""
    /\ lastOp.ran
    /\ deco.set_settings
    /\ lastOp.args = << >>
    /\ lastOp.kwargs = [p \in {"a"} |-> 2]
    /\ settings[lastOp.ret]["a"] = 2
    /\ DefaultOf("a") # 2

(* ------------------- dict arguments of a decorated call --------------- *)

\* A Python value handed to a decorated function: an int n, a list or a
\* dict with its items in insertion order (an item is <<key, value>>, the
\* key of a list item is ""), or the frozenset made of a dict's items; obj
\* tells the objects apart
PyVal(kind, n, items, obj) == [kind |-> kind, n |-> n, items |-> items, obj |-> obj]

\* hash(v) does not raise; the items of a frozenset were hashed when it was
\* built
Hashable(v) == v.kind \in {"int", "frozenset"}

\* frozenset(d.items()): hashes every (key, value), so it raises TypeError
\* for a value that is a list or a dict
dict_to_frozen_set(d) ==
    IF \A i \in 1..Len(d.items) : Hashable(d.items[i][2])
    THEN PyVal("frozenset", 0, d.items, 0)
    ELSE PyVal("TypeError", 0, << >>, 0)

\* dict(fs): a new dict, its items in the order the set is iterated in
frozenset_to_dict(fs, order, obj) ==
    PyVal("dict", 0, [i \in 1..Len(fs.items) |-> fs.items[order[i]]], obj)

\* the arguments tried: 5, [5], {"a": 5}, {"a": 5, "b": 6}, {"b": {"c": 6}}
\* and {"a": 5, "b": [5, {"c": 6}]}; the caller's object is number 1
NestedArgs ==
    LET int(n) == PyVal("int", n, << >>, 0)
        list(elems) == PyVal("list", 0, [i \in 1..Len(elems) |-> <<"", elems[i]>>], 1)
        dict(items) == PyVal("dict", 0, items, 1)
    IN  {int(5), list(<<int(5)>>),
         dict(<<<<"a", int(5)>>>>),
         dict(<<<<"a", int(5)>>, <<"b", int(6)>>>>),
         dict(<<<<"b", dict(<<<<"c", int(6)>>>>)>>>>),
         dict(<<<<"a", int(5)>>, <<"b", list(<<int(5), dict(<<<<"c", int(6)>>>>)>>)>>>>)}

\* g = autocell(set_name=False)(f); g(arg): the first call of a function
\* freshly decorated, so its cache is empty. wrapper_autocell turns a dict
\* into a frozenset, cached hashes the arguments, wrapped_cell turns the
\* frozenset back and runs the body, which makes a cell
CallNested(arg) ==
    LET opts == [set_name |-> FALSE, set_settings |-> TRUE, maxsize |-> MaxSize]
        done(r) ==
            /\ Commit(r)
            /\ lastOp' = [op |-> "call_nested", arg |-> arg, err |-> r.err,
                          ret |-> IF r.err = "" THEN r.new ELSE 0]
        call(v) ==
            IF ~Hashable(v) THEN done(Fail(St, "TypeError"))
            ELSE IF v.kind = "frozenset"
            THEN \E order \in {o \in [1..Len(v.items) -> 1..Len(v.items)] :
                                    \A i, j \in DOMAIN o : o[i] = o[j] => i = j} :
                    done(wrapped_cell(St, [p \in ParamSet |-> frozenset_to_dict(v, order, 2)],
                                      BodyNew(""), opts))
            ELSE done(wrapped_cell(St, [p \in ParamSet |-> v], BodyNew(""), opts))
    IN  /\ Len(kname) < MaxCells
        /\ call(IF arg.kind = "dict" THEN dict_to_frozen_set(arg) ELSE arg)
        /\ DecoUnchanged

NextNested ==
    \/ NewCell("")
    \/ \E arg \in NestedArgs : CallNested(arg)

SpecNested == Init /\ [][NextNested]_vars

\* C14: a decorated function called with a dict, also one that holds lists
\* and dicts, returns a cell; the value in its settings is equal to the
\* argument (the same items, whatever their order) and is another object.
C14_NestedDictRoundTrip ==
    (lastOp.op = "call_nested" /\ lastOp.arg.kind = "dict") =>
        /\ lastOp.err = ""
        /\ \A p \in ParamSet :
            LET stored == settings[lastOp.ret][p]
                Items(v) == {v.items[i] : i \in 1..Len(v.items)}
            IN  /\ stored.kind = "dict"
                /\ Items(stored) = Items(lastOp.arg)
                /\ Len(stored.items) = Len(lastOp.arg.items)
                /\ stored.obj # lastOp.arg.obj

(* ----------------------- claims on the registry ----------------------- *)

\* C15: KCell(name) with a name that is registered fails and leaves the cell
\* table and the backend layout as they were; register_cell of a cell whose
\* name is registered for another cell fails likewise, and register_cell of
\* the cell registered under its name changes nothing.
C15_DuplicateCreateRejected ==
    /\ (lastOp.op = "KCell" /\ lastOp.had)
        => (lastOp.err = "ValueError" /\ lastOp.same)
    /\ (lastOp.op = "register_cell" /\ lastOp.had)
        => /\ lastOp.same
           /\ lastOp.err = (IF kcells[kname[lastOp.cell]] = lastOp.cell THEN "" ELSE "KeyError")

\* KCell("a") was refused: another cell holds the name
C15_Witness ==
    /\ lastOp.op = "KCell"
    /\ lastOp.had
    /\ lastOp.err = "ValueError"
    /\ \E c \in wrapped : kname[c] = Name("a") /\ kcells[Name("a")] = c

(* ------------------------ claims on port order ------------------------ *)

\* C16: a new cell has no ports; create_port and add_port put the new port
\* behind the ports the cell has, which keep their order, and the port that
\* create_port returns is the one in the collection; renaming the ports
\* changes their names only, not their order.
C16_PortOrderPreserved ==
    /\ []((lastOp.op = "KCell" /\ lastOp.err = "") => ports[lastOp.cell] = << >>)
    /\ [][LET c == lastOp'.cell
              Unnamed(p) == [p EXCEPT !.name = ""]
          IN  /\ (lastOp'.op \in {"create_port", "add_port"} /\ lastOp'.err = "")
                    => \E p \in PortMenu, n \in PortNames :
                            ports'[c] = Append(ports[c], [p EXCEPT !.name = n])
              /\ (lastOp'.op = "create_port" /\ lastOp'.err = "")
                    => lastOp'.ret = Len(ports'[c])
              /\ lastOp'.op = "autorename_ports"
                    => /\ Len(ports'[c]) = Len(ports[c])
                       /\ \A i \in 1..Len(ports[c]) :
                            Unnamed(ports'[c][i]) = Unnamed(ports[c][i])]_vars

(* ------------------------ claims on dual rails ------------------------ *)

\* C17: place_dual_rails raises before it inserts a shape when
\* separation_rails is missing or is not smaller than route_width (by default
\* the width of the start port); otherwise it inserts exactly two polygons
\* on the route layer and returns them as the polygons of the route.
C17_DualRails ==
    (lastOp.op = "place_dual_rails" /\ ~lastOp.kwargs) =>
        LET c == lastOp.cell
            n == Len(lastOp.before)
        IN  IF lastOp.separation_rails = -1 \/ lastOp.separation_rails >= lastOp.route_width
            THEN lastOp.err # "" /\ shapes[c] = lastOp.before
            ELSE /\ lastOp.err = ""
                 /\ Len(shapes[c]) = n + 2
                 /\ SubSeq(shapes[c], 1, n) = lastOp.before
                 /\ lastOp.route.polygons = SubSeq(shapes[c], n + 1, n + 2)
                 /\ \A i \in (n + 1)..(n + 2) : shapes[c][i].layer = lastOp.route.layer

(* -------------------------- cross sections ---------------------------- *)

\* A name of a cross section: "<base>_<width>", or "<base>" when width is 0;
\* base "" stands for no name
XName(base, width) == [base |-> base, width |-> width]

\* The enclosures of the layout, by name; sections stands for the list of
\* sections.  kcl.get_enclosure(enclosure) is the enclosure the layout keeps
\* under the name, layer_enclosures.get_enclosure(LayerEnclosureSpec(...))
\* the one it keeps for the sections
Enclosures == {[name |-> "e1", sections |-> 1], [name |-> "e2", sections |-> 2]}
kcl_get_enclosure(enclosure) == CHOOSE e \in Enclosures : e.name = enclosure.name
spec_get_enclosure(sections) == CHOOSE e \in Enclosures : e.sections = sections

\* SymmetricalCrossSection(width, enclosure, name): name or
\* f"{enclosure.name}_{width}", then the validators of the width
SymmetricalCrossSection(width, enclosure, name) ==
    [kind |-> IF width % 2 # 0 \/ width <= 0 THEN "ValueError" ELSE "object",
     width |-> width, enclosure |-> enclosure,
     name |-> IF name.base = "" THEN XName(enclosure.name, width) ELSE name]

\* mutant: the new cross section replaces the one of its name
get_cross_section_replace(tab, cross_section) ==
    LET made == IF cross_section.kind = "spec"
                THEN SymmetricalCrossSection(cross_section.width,
                        spec_get_enclosure(cross_section.sections), cross_section.name)
                ELSE cross_section
    IN  IF made.kind = "object"
        THEN [tab |-> Put(tab, made.name, made), ret |-> made, err |-> ""]
        ELSE [tab |-> tab, ret |-> 0, err |-> "KeyError"]

\* CrossSectionModel.get_cross_section(cross_section) for a name (kind
\* "str"), a SymmetricalCrossSection ("object"), a DSymmetricalCrossSection
\* ("dobject") or a CrossSectionSpec with sections ("spec") or dsections
\* ("dspec"); µm widths are whole numbers of µm here
RECURSIVE get_cross_section(_, _)
get_cross_section(tab, cross_section) ==
    LET store(xs) ==
            IF xs.kind = "ValueError" THEN [tab |-> tab, ret |-> 0, err |-> "ValueError"]
            ELSE IF xs.name \notin DOMAIN tab
            THEN [tab |-> Put(tab, xs.name, xs), ret |-> xs, err |-> ""]
            ELSE [tab |-> tab, ret |-> tab[xs.name], err |-> ""]
    IN  IF cross_section.kind = "object"
                /\ cross_section.enclosure # kcl_get_enclosure(cross_section.enclosure)
        THEN get_cross_section(tab, [kind |-> "spec", width |-> cross_section.width,
                                     sections |-> cross_section.enclosure.sections,
                                     name |-> cross_section.name])
        ELSE IF cross_section.kind = "str"
        THEN IF cross_section.name \in DOMAIN tab
             THEN [tab |-> tab, ret |-> tab[cross_section.name], err |-> ""]
             ELSE [tab |-> tab, ret |-> 0, err |-> "KeyError"]
        ELSE IF cross_section.kind = "dobject"
        THEN IF cross_section.width <= 0 THEN [tab |-> tab, ret |-> 0, err |-> "ValueError"]
             ELSE store(SymmetricalCrossSection(cross_section.width * DbuInv,
                            kcl_get_enclosure(cross_section.enclosure), cross_section.name))
        ELSE IF cross_section.kind = "dspec"
        THEN store(SymmetricalCrossSection(cross_section.width * DbuInv,
                        spec_get_enclosure(cross_section.sections), cross_section.name))
        ELSE IF cross_section.kind = "spec"
        THEN store(SymmetricalCrossSection(cross_section.width,
                        spec_get_enclosure(cross_section.sections), cross_section.name))
        ELSE store(cross_section)

\* the arguments tried: names, specs in dbu and in µm, and cross sections made
\* outside the table, also one with an enclosure that is not the layout's
XArgs ==
    LET names == {XName("", 0), XName("x", 0), XName("e1", 2)}
        foreign == [name |-> "e1", sections |-> 2]
    IN  {[kind |-> "str", name |-> n] : n \in names \ {XName("", 0)}}
        \cup {[kind |-> k, width |-> w, sections |-> sec, name |-> n] :
                k \in {"spec", "dspec"}, w \in 0..2, sec \in 1..2, n \in names}
        \cup {[kind |-> "dobject", width |-> w, enclosure |-> e, name |-> n] :
                w \in 0..1, e \in Enclosures, n \in names}
        \cup {xs \in {SymmetricalCrossSection(w, e, n) :
                        w \in {2, 4}, e \in Enclosures \cup {foreign}, n \in names} :
                    xs.kind = "object"}

\* kcl.get_cross_section(arg)
GetCrossSection(arg) ==
    LET done(r) ==
            /\ cross_sections' = r.tab
            /\ lastOp' = [op |-> "get_cross_section", arg |-> arg, err |-> r.err,
                          ret |-> r.ret, before |-> cross_sections]
    IN  /\ done(get_cross_section(cross_sections, arg))
        /\ UNCHANGED <<kname, kcells, wrapped, locked, ports, kinsts, insts, shapes,
                       settings, deco, cache, owner, liveRet, used>>

NextCross == \E arg \in XArgs : GetCrossSection(arg)

SpecCross == Init /\ [][NextCross]_vars

\* C18: get_cross_section returns the entry the table holds under the name
\* of the cross section, and otherwise enters the cross section under that
\* name, "{enclosure.name}_{width}" when none is given, as the only new
\* entry; no entry is ever replaced or removed, and a name that the table
\* does not hold fails and leaves the table as it was.
C18_GetCrossSection ==
    lastOp.op = "get_cross_section" =>
        LET arg == lastOp.arg
            before == lastOp.before
            width == IF arg.kind \in {"dspec", "dobject"} THEN arg.width * DbuInv ELSE arg.width
            enclosure == IF arg.kind \in {"spec", "dspec"}
                         THEN CHOOSE e \in Enclosures : e.sections = arg.sections
                         ELSE arg.enclosure
            name == IF arg.name.base = "" THEN XName(enclosure.name, width) ELSE arg.name
        IN  /\ \A n \in DOMAIN before :
                    n \in DOMAIN cross_sections /\ cross_sections[n] = before[n]
            /\ lastOp.err # "" => cross_sections = before
            /\ arg.kind = "str" =>
                    IF arg.name \in DOMAIN before
                    THEN lastOp.err = "" /\ lastOp.ret = before[arg.name]
                            /\ cross_sections = before
                    ELSE lastOp.err = "KeyError"
            /\ (arg.kind # "str" /\ lastOp.err = "") =>
                    /\ lastOp.ret = cross_sections[name]
                    /\ IF name \in DOMAIN before THEN cross_sections = before
                       ELSE /\ DOMAIN cross_sections = DOMAIN before \cup {name}
                            /\ lastOp.ret.name = name
                            /\ lastOp.ret.width = width

\* a spec of width 2 named "x" was answered with the entry "x" of width 4
\* that the table held
C18_Witness ==
    /\ lastOp.op = "get_cross_section"
    /\ lastOp.arg.kind = "spec"
    /\ lastOp.err = ""
    /\ lastOp.arg.name = XName("x", 0)
    /\ lastOp.arg.width = 2
    /\ lastOp.ret.width = 4
    /\ cross_sections = lastOp.before


(* ------------------- claim on the copy of a cell ---------------------- *)

\* cells, their instances and their copies
NextCopy ==
    \/ NewCell("")
    \/ \E c \in Cells, d \in Cells : CreateInst(c, d)
    \/ \E c \in Cells : Copy(c)

SpecCopy == Init /\ [][NextCopy]_vars

\* C19: copy() of a cell with n instances yields a new unlocked cell,
\* registered under its own name, whose instances are exactly n clones, one
\* per original instance with the same child and the same transformation in
\* the same order, both in the wrapper's list and in the duplicated backend
\* cell, and whose ports equal the original's.
C19_CopyClonesInstances ==
    [][(lastOp'.op = "copy" /\ lastOp'.err = "")
         => LET c == lastOp'.cell
                n == lastOp'.new
                clone(k) == kinsts'[n][insts'[n][k]]
                orig(k) == kinsts[c][insts[c][k]]
            IN  /\ n \notin DOMAIN kname
                /\ n \in wrapped'
                /\ ~locked'[n]
                /\ kname'[n] # kname'[c]
                /\ kname'[n] \in DOMAIN kcells' /\ kcells'[kname'[n]] = n
                /\ ports'[n] = ports[c]
                /\ Len(insts'[n]) = Len(insts[c])
                /\ \A k \in 1..Len(insts[c]) :
                       /\ clone(k).cell = orig(k).cell
                       /\ clone(k).trans = orig(k).trans
                /\ Len(kinsts'[n]) = Len(insts[c])]_vars

\* the part of C19 on the wrapper's list alone
C19_WrapperClones ==
    [][(lastOp'.op = "copy" /\ lastOp'.err = "")
         => /\ Len(insts'[lastOp'.new]) = Len(insts[lastOp'.cell])
            /\ ~locked'[lastOp'.new]]_vars

\* a copy of a cell with one instance holds two backend instances
C19_Doubled ==
    /\ lastOp.op = "copy" /\ lastOp.err = ""
    /\ Len(insts[lastOp.cell]) = 1
    /\ Len(insts[lastOp.new]) = 1
    /\ Len(kinsts[lastOp.new]) = 2


(* ------------------- claim on the hash of a cell ---------------------- *)

\* sorted(hs) for a list of digests: the sorted list depends on the items
\* and how often each occurs, never on their order in hs; it is kept as
\* the count of every item
sorted(hs) ==
    [h \in {hs[i] : i \in DOMAIN hs} |-> Cardinality({i \in DOMAIN hs : hs[i] = h})]

\* Port.hash(): the data fed into the digest
Port_hash(p) == <<p.name, p.trans, p.width, p.port_type, p.layer>>

\* KCell.hash() of a cell of that name, shapes, port list and instance list,
\* and Instance.hash(): the data fed into the digest.  The sorted instance
\* hashes are computed into insts_hashs and not fed into it.
RECURSIVE KCell_hash(_, _, _, _, _)
KCell_hash(s, name, shp, prts, ins) ==
    LET Instance_hash(inst) ==
            <<KCell_hash(s, s.kname[inst.cell], s.shapes[inst.cell],
                         s.ports[inst.cell],
                         [k \in DOMAIN s.insts[inst.cell] |->
                              s.kinsts[inst.cell][s.insts[inst.cell][k]]]),
              inst.trans>>
        port_hashs == sorted([i \in DOMAIN prts |-> Port_hash(prts[i])])
        insts_hashs == sorted([i \in DOMAIN ins |-> Instance_hash(ins[i])])
    IN  [name |-> name, shapes |-> shp, ports |-> port_hashs]

\* cell.hash() in the state s
CellHash(s, c) ==
    KCell_hash(s, s.kname[c], s.shapes[c], s.ports[c],
               [k \in DOMAIN s.insts[c] |-> s.kinsts[c][s.insts[c][k]]])

\* cells, their ports and their instances
NextHash ==
    \/ NewCell("")
    \/ \E c \in Cells, p \in PortMenu : CreatePort(c, p)
    \/ \E c \in Cells, p \in PortMenu, n \in PortNames \cup {""} : AddPort(c, p, n)
    \/ \E c \in Cells, d \in Cells : CreateInst(c, d)

SpecHash == Init /\ [][NextHash]_vars

\* C20: the data fed into cell.hash() is the cell's name, the hashes of its
\* shapes, its port hashes in sorted order and its instance hashes in sorted
\* order: the order in which ports and instances were added does not change
\* the hash, and adding an instance to a cell changes the hashed data.
C20_HashedData ==
    /\ [](\A c \in wrapped :
            LET ins == [k \in DOMAIN insts[c] |-> kinsts[c][insts[c][k]]]
            IN  \A f \in Permutations(DOMAIN ports[c]), g \in Permutations(DOMAIN ins) :
                    KCell_hash(St, kname[c], shapes[c],
                               [i \in DOMAIN ports[c] |-> ports[c][f[i]]],
                               [i \in DOMAIN ins |-> ins[g[i]]])
                      = CellHash(St, c))
    /\ [][(lastOp'.op = "create_inst" /\ lastOp'.err = "")
            => LET after == [St EXCEPT !.kinsts = kinsts', !.insts = insts']
               IN  CellHash(after, lastOp'.cell) # CellHash(St, lastOp'.cell)]_vars

\* the part of C20 on the order of the ports and the part on create_port
C20_PortsHashed ==
    /\ [](\A c \in wrapped : \A f \in Permutations(DOMAIN ports[c]) :
            KCell_hash(St, kname[c], shapes[c],
                       [i \in DOMAIN ports[c] |-> ports[c][f[i]]], << >>)
              = CellHash(St, c))
    /\ [][(lastOp'.op \in {"create_port", "add_port"} /\ lastOp'.err = "")
            => CellHash([St EXCEPT !.ports = ports'], lastOp'.cell)
                 # CellHash(St, lastOp'.cell)]_vars

\* a cell holds two ports of different hashes
C20_TwoPorts ==
    \E c \in wrapped : Len(ports[c]) = 2 /\ Port_hash(ports[c][1]) # Port_hash(ports[c][2])


(* ------------------- claim on the hash of a port list ----------------- *)

\* Ports.hash() of the list prts whose i-th port object has the builtin
\* hash(port) ids[i]: the ports are sorted by name, then (stably) by
\* hash(port), and name, trans, width and twice the port_type of each are
\* fed into the digest in that order.  Port defines neither __eq__ nor
\* __hash__, so hash(port) is the identity hash of the object.
Ports_hash(prts, ids) ==
    LET objs == [i \in DOMAIN prts |-> [port |-> prts[i], id |-> ids[i]]]
        NameRank(o) == CHOOSE k \in DOMAIN PortNameSeq : PortNameSeq[k] = o.port.name
        IdRank(o) == o.id
        stable_sorted(seq, key(_)) ==
            LET f == CHOOSE g \in Permutations(DOMAIN seq) :
                         \A i, j \in DOMAIN seq :
                             i < j => \/ key(seq[g[i]]) < key(seq[g[j]])
                                      \/ (key(seq[g[i]]) = key(seq[g[j]]) /\ g[i] < g[j])
            IN  [i \in DOMAIN seq |-> seq[f[i]]]
        order == stable_sorted(stable_sorted(objs, NameRank), IdRank)
    IN  [i \in DOMAIN order |->
            <<order[i].port.name, order[i].port.trans, order[i].port.width,
              order[i].port.port_type, order[i].port.port_type>>]

\* cell.ports.hash(), the port objects of the cell having the identity
\* hashes ids
PortsHash(c, ids) ==
    /\ c \in wrapped
    /\ DOMAIN ids = DOMAIN ports[c]
    /\ lastOp' = [op |-> "Ports.hash", cell |-> c, err |-> "", ids |-> ids,
                  ret |-> Ports_hash(ports[c], ids)]
    /\ UNCHANGED <<kname, kcells, wrapped, locked, ports, kinsts, insts, shapes, settings>>
    /\ DecoUnchanged

\* cells, their ports and the hash of their port lists
NextPortsHash ==
    \/ \E n \in UserNames \cup {""} : NewCell(n)
    \/ \E c \in Cells, p \in PortMenu : CreatePort(c, p)
    \/ \E c \in Cells, p \in PortMenu, n \in PortNames \cup {""} : AddPort(c, p, n)
    \/ \E c \in Cells : \E ids \in Permutations(DOMAIN ports[c]) : PortsHash(c, ids)

SpecPortsHash == Init /\ [][NextPortsHash]_vars

\* C21: two ports equal in name, transformation, width, port type and layer
\* have equal hash(), and the hash of a port list depends only on the ports
\* it holds: the same ports in any order of insertion, held as any distinct
\* objects, give the same Ports.hash().
C21_PortsHashStable ==
    /\ \A c, d \in wrapped : \A i \in DOMAIN ports[c], j \in DOMAIN ports[d] :
           LET p == ports[c][i]
               q == ports[d][j]
           IN  (/\ p.name = q.name /\ p.trans = q.trans /\ p.width = q.width
                /\ p.port_type = q.port_type /\ p.layer = q.layer)
                 => Port_hash(p) = Port_hash(q)
    /\ lastOp.op = "Ports.hash"
         => \A f \in Permutations(DOMAIN ports[lastOp.cell]),
               ids \in Permutations(DOMAIN ports[lastOp.cell]) :
                Ports_hash([i \in DOMAIN ports[lastOp.cell] |-> ports[lastOp.cell][f[i]]], ids)
                  = lastOp.ret

\* the part of C21 that does not depend on the identity of the objects:
\* with the same identity hashes, the order of insertion does not matter
\* when the names differ
C21_SameObjects ==
    lastOp.op = "Ports.hash"
      => \A f \in Permutations(DOMAIN ports[lastOp.cell]) :
             Ports_hash([i \in DOMAIN ports[lastOp.cell] |-> ports[lastOp.cell][f[i]]],
                        [i \in DOMAIN ports[lastOp.cell] |-> lastOp.ids[f[i]]])
               = lastOp.ret


(* ---------------- the arguments route_bundle hands on ----------------- *)

\* Straight(dist)
Straight(d) == [dist |-> d, step |-> "Straight"]

\* an argument of route_bundle by its Python type: None, [] ("empty"), a
\* number ("unit", v = <<d>>), a list of numbers ("units" or "list", v), a
\* list of Steps ("steps", v the distances of its Straights), a list of
\* lists of Steps ("lists", vv the distances)
Arg(kind, v, vv) == [kind |-> kind, v |-> v, vv |-> vv]
None == Arg("None", << >>, << >>)

\* mutant: a number gives its Straight to the first port only
starts_first(x, length) ==
    CASE x.kind \in {"None", "empty"} -> [i \in 1..length |-> << >>]
      [] x.kind = "unit" -> [i \in 1..length |-> IF i = 1 THEN <<Straight(x.v[1])>> ELSE << >>]
      [] x.kind = "units" -> [i \in 1..Len(x.v) |-> <<Straight(x.v[i])>>]
      [] x.kind = "steps" -> [i \in 1..length |-> [j \in DOMAIN x.v |-> Straight(x.v[j])]]
      [] OTHER -> [i \in DOMAIN x.vv |-> [j \in DOMAIN x.vv[i] |-> Straight(x.vv[i][j])]]

\* starts_ (and likewise ends_) of route_bundle for length port pairs
starts_(x, length) ==
    CASE x.kind \in {"None", "empty"} -> [i \in 1..length |-> << >>]
      [] x.kind = "unit" -> [i \in 1..length |-> <<Straight(x.v[1])>>]
      [] x.kind = "units" -> [i \in 1..Len(x.v) |-> <<Straight(x.v[i])>>]
      [] x.kind = "steps" -> [i \in 1..length |-> [j \in DOMAIN x.v |-> Straight(x.v[j])]]
      [] OTHER -> [i \in DOMAIN x.vv |-> [j \in DOMAIN x.vv[i] |-> Straight(x.vv[i][j])]]

\* route_bundle(c, start_ports, end_ports, starts, ends, start_angles,
\* end_angles, routing_function, placer_function, on_collision = None) with a
\* routing function that records its arguments and returns one router per
\* port pair, from the transformation of the start port to that of the end
\* port, and a placer that records p1 and p2
route_bundle_calls(start_ports, end_ports, starts, ends, start_angles, end_angles) ==
    LET length == Len(start_ports)
        \* p.copy(post_trans = kdb.Trans(a - p.trans.angle))
        turned(p, a) ==
            [p EXCEPT !.trans = Mul(p.trans, Trans((a - p.trans.rot) % 4, FALSE, 0, 0))]
        bad(angles, prts) == angles.kind = "list" /\ Len(angles.v) # Len(prts)
        \* the ports zipped with the angles are taken from zipped
        ports_(angles, prts, zipped) ==
            CASE angles.kind = "None" -> prts
              [] angles.kind = "unit" -> [i \in 1..Len(prts) |-> turned(prts[i], angles.v[1])]
              [] OTHER -> [i \in 1..Len(zipped) |-> turned(zipped[i], angles.v[i])]
        start_ports_ == ports_(start_angles, start_ports, start_ports)
        end_ports_ == ports_(end_angles, end_ports, start_ports_)
        routers == [i \in 1..length |->
                       [start_transformation |-> start_ports_[i].trans,
                        end_transformation |-> end_ports_[i].trans]]
        none == [err |-> "", routing |-> << >>, placed |-> << >>]
    IN  IF length = 0 THEN none
        ELSE IF length # Len(end_ports) THEN [none EXCEPT !.err = "ValueError"]
        ELSE IF bad(start_angles, start_ports) \/ bad(end_angles, end_ports)
             THEN [none EXCEPT !.err = "ValueError"]
        ELSE [err |-> "",
              routing |-> <<[start_ports |-> start_ports_, end_ports |-> end_ports_,
                             widths |-> [i \in 1..length |-> start_ports_[i].width],
                             starts |-> starts_(starts, length), ends |-> starts_(ends, length)]>>,
              placed |-> [k \in 1..length |->
                             [p1 |-> Mapping(start_ports_, routers[k].start_transformation),
                              p2 |-> Mapping(end_ports_, routers[k].end_transformation)]]]

\* route_bundle of routing/electrical.py for a cell in µm: the angles in
\* degrees are looked up in angles and handed to the generic route_bundle
route_bundle_um(start_ports, end_ports, start_angles, end_angles) ==
    LET angles(deg) == CASE deg = 0 -> 0 [] deg = 90 -> 1 [] deg = 180 -> 2 [] deg = 270 -> 30
        code(x) == CASE x.kind = "None" -> x
                     [] x.kind = "unit" -> Arg("unit", <<angles(x.v[1])>>, << >>)
                     [] OTHER -> Arg("list", [i \in 1..Len(x.v) |-> angles(x.v[i])], << >>)
    IN  [start_angles |-> code(start_angles), end_angles |-> code(end_angles),
         call |-> route_bundle_calls(start_ports, end_ports, None, None,
                                     code(start_angles), code(end_angles))]

\* the start and end ports of a bundle of n port pairs; with same, all
\* start ports have the transformation of the first and all end ports that
\* of the first, and differ in name and width
BundlePorts(n, same, end) ==
    [i \in 1..n |->
        LET p == IF end THEN EndPort(i) ELSE StartPort(i)
        IN  IF same THEN Port(p.name, Trans(p.trans.rot, FALSE, p.trans.x, 0), 2 * i,
                              p.layer, p.port_type)
            ELSE p]

StepArgs ==
    {None, Arg("empty", << >>, << >>), Arg("unit", <<1>>, << >>),
     Arg("units", <<1, 2>>, << >>), Arg("steps", <<1, 2>>, << >>),
     Arg("lists", << >>, <<<<2>>, << >>>>)}

AngleArgs ==
    {None, Arg("unit", <<1>>, << >>), Arg("unit", <<3>>, << >>), Arg("list", <<1>>, << >>), Arg("list", <<1, 3>>, << >>),
     Arg("list", <<3, 0>>, << >>)}

DegreeArgs ==
    {None, Arg("unit", <<0>>, << >>), Arg("unit", <<90>>, << >>), Arg("unit", <<180>>, << >>), Arg("unit", <<270>>, << >>),
     Arg("list", <<90, 270>>, << >>), Arg("list", <<180, 0>>, << >>)}

\* route_bundle(c, start_ports, end_ports, starts = , ends = ): what it was
\* given and what it handed to the routing function and the placer.  The
\* arguments the call never reads, for no ports or unequal port counts, are
\* left at None.
RouteBundleSteps ==
    \E n, m \in 0..MaxRouters :
      \E starts, ends \in (IF n > 0 /\ n = m THEN StepArgs ELSE {None}) :
        LET sps == BundlePorts(n, FALSE, FALSE)
            eps == BundlePorts(m, FALSE, TRUE)
            r == route_bundle_calls(sps, eps, starts, ends, None, None)
        IN  /\ lastOp' = [op |-> "route_bundle", err |-> r.err,
                          start_ports |-> sps, end_ports |-> eps,
                          starts |-> starts, ends |-> ends,
                          start_angles |-> None, end_angles |-> None,
                          passed |-> << >>, routing |-> r.routing, placed |-> r.placed]
            /\ UNCHANGED <<kname, kcells, wrapped, locked, ports, kinsts, insts, shapes,
                           settings>>
            /\ DecoUnchanged

\* route_bundle(c, start_ports, end_ports, start_angles = , end_angles = )
RouteBundleAngles ==
    \E n, m \in 0..MaxRouters :
      \E start_angles, end_angles \in (IF n > 0 /\ n = m THEN AngleArgs ELSE {None}) :
      \E same \in (IF n = MaxRouters /\ m = MaxRouters THEN BOOLEAN ELSE {FALSE}) :
        LET sps == BundlePorts(n, same, FALSE)
            eps == BundlePorts(m, same, TRUE)
            r == route_bundle_calls(sps, eps, None, None, start_angles, end_angles)
        IN  /\ lastOp' = [op |-> "route_bundle", err |-> r.err,
                          start_ports |-> sps, end_ports |-> eps,
                          starts |-> None, ends |-> None,
                          start_angles |-> start_angles, end_angles |-> end_angles,
                          passed |-> << >>, routing |-> r.routing, placed |-> r.placed]
            /\ UNCHANGED <<kname, kcells, wrapped, locked, ports, kinsts, insts, shapes,
                           settings>>
            /\ DecoUnchanged

\* the electrical route_bundle(c, start_ports, end_ports, start_angles = ,
\* end_angles = ) for a cell in µm
RouteBundleUm ==
    \E n \in 1..MaxRouters, start_angles, end_angles \in DegreeArgs :
        LET sps == BundlePorts(n, FALSE, FALSE)
            eps == BundlePorts(n, FALSE, TRUE)
            r == route_bundle_um(sps, eps, start_angles, end_angles)
        IN  /\ lastOp' = [op |-> "route_bundle_um", err |-> r.call.err,
                          start_ports |-> sps, end_ports |-> eps,
                          starts |-> None, ends |-> None,
                          start_angles |-> start_angles, end_angles |-> end_angles,
                          passed |-> <<r.start_angles, r.end_angles>>,
                          routing |-> r.call.routing, placed |-> r.call.placed]
            /\ UNCHANGED <<kname, kcells, wrapped, locked, ports, kinsts, insts, shapes,
                           settings>>
            /\ DecoUnchanged

NextCalls ==
    \/ RouteBundleSteps
    \/ RouteBundleAngles
    \/ RouteBundleUm

SpecCalls == Init /\ [][NextCalls]_vars

\* C22: given start_angles / end_angles (one value or one per port), the
\* ports handed to the routing function are the original ports turned in
\* place: start port i keeps the position of start_ports[i] and gets angle
\* start_angles[i], end port i keeps the position of end_ports[i] and gets
\* angle end_angles[i] (modulo 4); a list whose length differs from the
\* number of ports raises ValueError.
C22_AnglesTurnInPlace ==
    (lastOp.op = "route_bundle" /\ Len(lastOp.start_ports) > 0
       /\ Len(lastOp.start_ports) = Len(lastOp.end_ports))
      => LET n == Len(lastOp.start_ports)
             wrong(a) == a.kind = "list" /\ Len(a.v) # n
             angle(a, i) == IF a.kind = "unit" THEN a.v[1] % 4 ELSE a.v[i] % 4
             turned(a, from, to) ==
                 \A i \in 1..n :
                     /\ to[i].trans.x = from[i].trans.x
                     /\ to[i].trans.y = from[i].trans.y
                     /\ to[i].name = from[i].name
                     /\ to[i].trans.rot = (IF a.kind = "None" THEN from[i].trans.rot
                                           ELSE angle(a, i))
         IN  IF wrong(lastOp.start_angles) \/ wrong(lastOp.end_angles)
             THEN lastOp.err = "ValueError"
             ELSE /\ lastOp.err = ""
                  /\ Len(lastOp.routing) = 1
                  /\ turned(lastOp.start_angles, lastOp.start_ports,
                            lastOp.routing[1].start_ports)
                  /\ turned(lastOp.end_angles, lastOp.end_ports,
                            lastOp.routing[1].end_ports)

\* the part of C22 on the start ports and on one angle for all end ports
C22_StartTurned ==
    (lastOp.op = "route_bundle" /\ lastOp.err = "" /\ Len(lastOp.routing) = 1
       /\ lastOp.end_angles.kind # "list")
      => \A i \in 1..Len(lastOp.start_ports) :
             LET from == lastOp.start_ports[i].trans
                 to == lastOp.routing[1].start_ports[i].trans
                 efrom == lastOp.end_ports[i].trans
                 eto == lastOp.routing[1].end_ports[i].trans
                 a == lastOp.start_angles
             IN  /\ to.x = from.x /\ to.y = from.y
                 /\ to.rot = (CASE a.kind = "None" -> from.rot
                                [] a.kind = "unit" -> a.v[1] % 4
                                [] OTHER -> a.v[i] % 4)
                 /\ eto.x = efrom.x /\ eto.y = efrom.y
                 /\ eto.rot = (IF lastOp.end_angles.kind = "None" THEN efrom.rot
                               ELSE lastOp.end_angles.v[1] % 4)


\* C23: in the µm variant of the electrical route_bundle every start / end
\* angle given in degrees from {0, 90, 180, 270} is handed to the generic
\* route_bundle as the angle code degrees / 90.
C23_DegreesToCodes ==
    lastOp.op = "route_bundle_um"
      => \A k \in 1..2 :
             LET given == IF k = 1 THEN lastOp.start_angles ELSE lastOp.end_angles
             IN  /\ lastOp.passed[k].kind = given.kind
                 /\ Len(lastOp.passed[k].v) = Len(given.v)
                 /\ \A i \in DOMAIN given.v : lastOp.passed[k].v[i] * 90 = given.v[i]

\* the part of C23 on the angles 0, 90 and 180
C23_BelowThree ==
    lastOp.op = "route_bundle_um"
      => \A k \in 1..2 :
             LET given == IF k = 1 THEN lastOp.start_angles ELSE lastOp.end_angles
             IN  \A i \in DOMAIN given.v :
                     given.v[i] # 270 => lastOp.passed[k].v[i] * 90 = given.v[i]

\* C28: route_bundle turns starts (and likewise ends) for N port pairs into
\* N step lists: None or [] gives N empty lists, a number d gives
\* [Straight(d)] for every port, a list of N numbers gives [Straight(d_i)]
\* for port i, a list of Steps gives that list for every port and a list of
\* lists is used as given; with no start ports the call returns [] without
\* calling the routing function, with unequal port counts it raises
\* ValueError before routing.
C28_StepsNormalized ==
    lastOp.op = "route_bundle"
      => LET N == Len(lastOp.start_ports)
             given(x, got) ==
                 CASE x.kind \in {"None", "empty"} ->
                          got = [i \in 1..N |-> << >>]
                   [] x.kind = "unit" ->
                          got = [i \in 1..N |-> <<Straight(x.v[1])>>]
                   [] x.kind = "units" ->
                          Len(x.v) = N => got = [i \in 1..N |-> <<Straight(x.v[i])>>]
                   [] x.kind = "steps" ->
                          /\ Len(got) = N
                          /\ \A i \in 1..N :
                                 /\ Len(got[i]) = Len(x.v)
                                 /\ \A j \in DOMAIN x.v : got[i][j] = Straight(x.v[j])
                   [] OTHER ->
                          /\ Len(got) = Len(x.vv)
                          /\ \A i \in DOMAIN x.vv :
                                 /\ Len(got[i]) = Len(x.vv[i])
                                 /\ \A j \in DOMAIN x.vv[i] : got[i][j] = Straight(x.vv[i][j])
         IN  IF N = 0 THEN lastOp.err = "" /\ lastOp.routing = << >> /\ lastOp.placed = << >>
             ELSE IF N # Len(lastOp.end_ports)
                  THEN lastOp.err = "ValueError" /\ lastOp.routing = << >>
             ELSE lastOp.err = ""
                    => /\ Len(lastOp.routing) = 1
                       /\ given(lastOp.starts, lastOp.routing[1].starts)
                       /\ given(lastOp.ends, lastOp.routing[1].ends)

\* two port pairs routed with starts = 1 and ends = [1, 2]
C28_Witness ==
    /\ lastOp.op = "route_bundle"
    /\ lastOp.err = ""
    /\ Len(lastOp.start_ports) = 2
    /\ lastOp.starts.kind = "unit"
    /\ lastOp.ends.kind = "units"
    /\ lastOp.routing[1].starts = <<<<Straight(1)>>, <<Straight(1)>>>>
    /\ lastOp.routing[1].ends = <<<<Straight(1)>>, <<Straight(2)>>>>

\* C30: the placer call for a router receives as p1 / p2 the start / end
\* port the router started and ended at, and every start port and every end
\* port handed to the routing function is used by exactly one placer call,
\* also when two ports of the bundle have the same transformation and differ
\* in name or width.
C30_OwnPortPair ==
    (lastOp.op = "route_bundle" /\ lastOp.err = "" /\ Len(lastOp.routing) = 1)
      => LET sps == lastOp.routing[1].start_ports
             eps == lastOp.routing[1].end_ports
         IN  /\ Len(lastOp.placed) = Len(sps)
             /\ \A k \in DOMAIN lastOp.placed :
                    /\ lastOp.placed[k].p1 = sps[k]
                    /\ lastOp.placed[k].p2 = eps[k]
             /\ \A i \in DOMAIN sps :
                    /\ Cardinality({k \in DOMAIN lastOp.placed : lastOp.placed[k].p1 = sps[i]}) = 1
                    /\ Cardinality({k \in DOMAIN lastOp.placed : lastOp.placed[k].p2 = eps[i]}) = 1

\* the part of C30 on bundles whose start ports have different
\* transformations and whose end ports have different transformations
C30_DistinctTrans ==
    (lastOp.op = "route_bundle" /\ lastOp.err = "" /\ Len(lastOp.routing) = 1)
      => LET sps == lastOp.routing[1].start_ports
             eps == lastOp.routing[1].end_ports
         IN  (\A i, j \in DOMAIN sps :
                  i # j => sps[i].trans # sps[j].trans /\ eps[i].trans # eps[j].trans)
               => \A k \in DOMAIN lastOp.placed :
                      lastOp.placed[k].p1 = sps[k] /\ lastOp.placed[k].p2 = eps[k]


(* ------------------------- connect_cplx ------------------------------- *)

\* Instance.connect_cplx(portname, other, other_port_name, mirror, allow_*)
\* on the i-th instance wrapper of cell c.  The width check passes for two
\* widths that compare equal, and for an int and a float width that are
\* equal in µm; the checks of width, layer and type follow in that order.
\* self.trans = R0 and the three self.transform(t) that follow reach the
\* backend instance, each transform(t) giving it t * trans.
Instance_connect_cplx(s, c, i, portname, other, other_port_name, mirror, aw, al, at) ==
    LET ki == s.insts[c][i]
        inst == s.kinsts[c][ki]
        transform(cur, t) == Mul(t, cur)
        piece_by_piece(p, op) ==
            transform(transform(transform(R0, op.trans), IF mirror THEN M90 ELSE R180),
                      Inverted(p.trans))
        width_differs(p, op) ==
            /\ ~WidthEq(p, op)
            /\ (p.int_based = op.int_based \/ p.width # op.width)
        check(p, op) ==
            IF width_differs(p, op) /\ ~aw THEN Fail(s, "PortWidthMismatch")
            ELSE IF p.layer # op.layer /\ ~al THEN Fail(s, "PortLayerMismatch")
            ELSE IF p.port_type # op.port_type /\ ~at THEN Fail(s, "PortTypeMismatch")
            ELSE [s EXCEPT !.kinsts[c][ki].trans = piece_by_piece(p, op)]
        find(r, k) ==
            IF r.err # "" THEN Fail(s, r.err)
            ELSE IF k = 0 THEN Fail(s, "StopIteration")
            ELSE check(s.ports[inst.cell][k], r.op)
    IN  find(ConnectOp(s, other, other_port_name),
             Ports_index(s.ports[inst.cell], portname))

\* inst.connect_cplx(portname, other, other_port_name, ...) for the i-th
\* instance of cell c: what was asked, how it ended, and the port op that
\* `other` stands for
ConnectCplx(c, i, portname, other, other_port_name, mirror, aw, al, at) ==
    /\ c \in wrapped
    /\ i \in Insts(c)
    /\ LET ki == insts[c][i]
           k == Ports_index(ports[kinsts[c][ki].cell], portname)
           done(res, r) ==
               /\ InRange(r.kinsts[c][ki].trans)
               /\ Commit(r)
               /\ lastOp' = [op |-> "connect_cplx", cell |-> c, inst |-> i,
                             port |-> portname, err |-> r.err, mirror |-> mirror,
                             same |-> r.kinsts[c][ki].trans = kinsts[c][ki].trans,
                             found |-> res.err = "" /\ k # 0,
                             optrans |-> IF res.err = "" /\ k # 0 THEN res.op.trans ELSE R0]
       IN  done(ConnectOp(St, other, other_port_name),
                Instance_connect_cplx(St, c, i, portname, other, other_port_name,
                                      mirror, aw, al, at))
    /\ DecoUnchanged

\* the first instance of top is connected with connect_cplx, to a port or to
\* the second instance, which is given a magnification or not
NextCplx ==
    \/ \E c \in Cells, m \in Mags : SetCplx(c, 2, m)
    \/ \E c \in Cells, pn \in AskNames, op \in OtherPorts,
          mirror \in BOOLEAN, aw \in BOOLEAN, al \in BOOLEAN, at \in BOOLEAN :
            ConnectCplx(c, 1, pn, OtherPort(op), "", mirror, aw, al, at)
    \/ \E c \in Cells, pn \in AskNames, opn \in AskNames \cup {""},
          mirror \in BOOLEAN, aw \in BOOLEAN, al \in BOOLEAN, at \in BOOLEAN :
            ConnectCplx(c, 1, pn, OtherInst(c, 2), opn, mirror, aw, al, at)

SpecCplx == InitConn /\ [][NextCplx]_vars

\* C24: after a connect_cplx(pname, op, mirror) that returned, the
\* transformation of the instance is op.trans * conn * p.trans.inverted()
\* with conn = M90 if mirror else R180, so that the instance's port pname
\* sits at op.trans * conn; a connect_cplx that raised for the width, the
\* layer or the type leaves the transformation of the instance as it was.
C24_ConnectCplxContract ==
    lastOp.op = "connect_cplx"
      => LET conn == IF lastOp.mirror THEN M90 ELSE R180
         IN  /\ lastOp.err = ""
                  => /\ ConnectedTrans
                          = Mul(Mul(lastOp.optrans, conn), Inverted(ConnectedPort.trans))
                     /\ Mul(ConnectedTrans, ConnectedPort.trans) = Mul(lastOp.optrans, conn)
             /\ lastOp.err \in {"PortWidthMismatch", "PortLayerMismatch", "PortTypeMismatch"}
                  => lastOp.same

\* the part of C24 on a connect_cplx that raised
C24_RaisedUnchanged ==
    (lastOp.op = "connect_cplx" /\ lastOp.err # "") => lastOp.same


(* ------------------- claim on the lock of a cell ---------------------- *)

\* the public operations on cells that are or are not published: the call
\* f(), copies, ports, instances of published cells and their connection
NextLock ==
    \/ \E b \in Bodies : CallMiss(<< >>, EmptyMap, b)
    \/ CallHit(<< >>, EmptyMap)
    \/ \E c \in Cells : Copy(c)
    \/ \E c \in Cells : CreatePort(c, Port("o1", R0, 1, 1, "optical"))
    \/ \E c \in Cells, d \in Published : CreateInst(c, d)
    \/ \E c \in Cells, r \in 0..1 :
           ConnectPort(c, 1, "o1", Port("p", Trans(r, FALSE, 1, 0), 1, 1, "optical"),
                       FALSE, TRUE, TRUE, TRUE)

SpecLock == Init /\ [][NextLock]_vars

\* C25: once a cell is locked, no decorated call, cache hit, copy(),
\* create_inst or connect makes it unlocked again; copy() leaves the original
\* locked and only the new cell is unlocked.
C25_LockedIsTerminal ==
    [][/\ \A c \in DOMAIN locked : locked[c] => locked'[c]
       /\ (lastOp'.op = "copy" /\ lastOp'.err = "")
            => /\ locked'[lastOp'.cell] = locked[lastOp'.cell]
               /\ lastOp'.new \notin DOMAIN locked
               /\ ~locked'[lastOp'.new]]_vars

\* a published cell was copied: it is locked, its copy is not
C25_Witness ==
    /\ lastOp.op = "copy"
    /\ lastOp.err = ""
    /\ locked[lastOp.cell]
    /\ ~locked[lastOp.new]


(* ------------------- claim on the cell decorator ---------------------- *)

\* cell(_func, set_settings=, maxsize=): the options of the autocell it
\* returns.  Applied bare it is autocell(_func), the defaults of autocell
\* (set_settings, set_name, maxsize = 512); applied with options it is
\* autocell(set_settings=set_settings, set_name=False), maxsize is not
\* handed on.
cell(bare, set_settings, maxsize) ==
    IF bare
    THEN [set_name |-> TRUE, set_settings |-> TRUE, maxsize |-> 512]
    ELSE [set_name |-> FALSE, set_settings |-> set_settings, maxsize |-> 512]

\* An empty library and a function decorated with @cell, or with
\* @cell(set_settings=..., maxsize=...); asked keeps how it was applied
InitCellDeco ==
    /\ kname = << >>
    /\ kcells = EmptyMap
    /\ wrapped = {}
    /\ locked = << >>
    /\ ports = << >>
    /\ kinsts = << >>
    /\ insts = << >>
    /\ shapes = << >>
    /\ settings = << >>
    /\ \E bare \in BOOLEAN, set_settings \in BOOLEAN, maxsize \in {1, 2, 512} :
          /\ bare => (set_settings /\ maxsize = 512)
          /\ deco = cell(bare, set_settings, maxsize)
                      @@ [asked |-> [bare |-> bare, set_settings |-> set_settings,
                                     maxsize |-> maxsize]]
    /\ cache = << >>
    /\ owner = << >>
    /\ liveRet = [k \in Keys |-> 0]
    /\ used = << >>
    /\ cross_sections = EmptyMap
    /\ lastOp = [op |-> "init"]

\* the calls of the decorated function
NextCellDeco ==
    \/ \E a \in ArgLists : CallHit(a, EmptyMap)
    \/ \E a \in ArgLists, b \in Bodies : CallMiss(a, EmptyMap, b)

SpecCellDeco == InitCellDeco /\ [][NextCellDeco]_vars

\* C26: a function decorated with cell, bare or with options, returns the
\* cell under the name its body gave it, and its cache holds as many
\* entries as the maxsize it was decorated with and no more.
C26_CellKeepsNameAndSize ==
    /\ [](Len(cache) <= deco.asked.maxsize)
    /\ [][(lastOp'.op = "call" /\ lastOp'.err = "" /\ lastOp'.ran)
            => \E body \in Bodies :
                 LET b == RunBody(St, body)
                 IN  /\ b.err = ""
                     /\ b.new = lastOp'.handed
                     /\ (lastOp'.ret = b.new) => (kname'[lastOp'.ret] = b.kname[b.new])]_vars

\* the part of C26 on cell applied with options: the name of the body's cell
\* is kept and set_settings is the requested one
C26_WithOptions ==
    /\ [](~deco.asked.bare
            => (~deco.set_name /\ deco.set_settings = deco.asked.set_settings))
    /\ [][(~deco.asked.bare /\ lastOp'.op = "call" /\ lastOp'.err = "" /\ lastOp'.ran)
            => \E body \in Bodies :
                 LET b == RunBody(St, body)
                 IN  /\ b.err = ""
                     /\ b.new = lastOp'.handed
                     /\ (lastOp'.ret = b.new) => (kname'[lastOp'.ret] = b.kname[b.new])]_vars

\* the part of C26 on the name, for a function decorated with bare @cell
C26_BareKeepsName ==
    [][(deco.asked.bare /\ lastOp'.op = "call" /\ lastOp'.err = "" /\ lastOp'.ran)
         => \E body \in Bodies :
              LET b == RunBody(St, body)
              IN  /\ b.err = ""
                  /\ b.new = lastOp'.handed
                  /\ (lastOp'.ret = b.new) => (kname'[lastOp'.ret] = b.kname[b.new])]_vars

\* the part of C26 on the capacity, for a function decorated with options
C26_OptionsCapacity ==
    [](~deco.asked.bare => Len(cache) <= deco.asked.maxsize)


(* --------------- claim on the outcome of the collision check ---------- *)

\* C27: under on_collision "error" or "show_error" check_collisions raises
\* the routing-collision error whenever a collision is found, be it
\* colliding router edges or overlapping route polygons or instances on a
\* checked layer, and it returns normally only when none is found.
C27_AnyCollisionRaises ==
    (/\ lastOp.op = "route_bundle"
     /\ \E at \in 1..Len(lastOp.log) : lastOp.log[at] = Checked
     /\ lastOp.on_collision \in {"error", "show_error"})
        => ((lastOp.err = "RuntimeError") <=> (lastOp.edges \/ lastOp.overlap))

\* the part of C27 that holds: the error is raised if and only if both
\* colliding edges and an overlap on a checked layer are found
C27_RaisedOnBoth ==
    (/\ lastOp.op = "route_bundle"
     /\ \E at \in 1..Len(lastOp.log) : lastOp.log[at] = Checked
     /\ lastOp.on_collision \in {"error", "show_error"})
        => ((lastOp.err = "RuntimeError") <=> (lastOp.edges /\ lastOp.overlap))


(* ------------------- claim on the table of cells ---------------------- *)

\* C29: in every state of the registry each key of the table of cells is
\* the backend name of the cell stored under it, and every cell created
\* through the registry is stored in the table under its own name.
C29_TableConsistent ==
    /\ \A k \in DOMAIN kcells : kcells[k] \in Cells /\ kname[kcells[k]] = k
    /\ \A c \in wrapped : kname[c] \in DOMAIN kcells /\ kcells[kname[c]] = c

\* the part of C29 that holds: the table stores cells of the registry
C29_ValuesAreCells ==
    \A k \in DOMAIN kcells : kcells[k] \in wrapped
====
